---- MODULE Spec2Model ----
(***************************************************************************)
(* Model of the DataCompy dashboard's comparison path.                     *)
(*                                                                         *)
(* Three front-ends run a comparison:                                      *)
(*   - the Dash application: app.run_comparison_from_modal calls           *)
(*     DataHandler.run_comparison, stores the result in the session's      *)
(*     DuckDB tables and renders it with                                   *)
(*     components.comparison_fixed.create_comparison_section;              *)
(*   - the Tkinter tool: DataInputWindow.run_csv_comparison starts         *)
(*     run_comparison_in_thread, show_comparison_results shows the result; *)
(*   - the PyQt tool: ComparisonWorker.run.                                *)
(* The first two delegate the row join and the cell comparison to          *)
(* datacompy.Compare (a pandas outer merge on the join columns followed    *)
(* by numpy.isclose per compared column).  The operators of the section    *)
(* "datacompy.Compare" state what that call computes; everything else is   *)
(* translated from the repository's own code.                              *)
(*                                                                         *)
(* Cells are <<>> (NaN/None) or <<n>> (the number n, in units of the       *)
(* tolerance spin box's increment).  A data frame is a record              *)
(* [columns: sequence of names, rows: sequence of functions name -> cell]; *)
(* its index is the row's position.                                        *)
(*                                                                         *)
(* TLC evaluates a LET definition anew at every use and an operator        *)
(* argument once, so intermediate values are passed on as arguments.       *)
(***************************************************************************)
EXTENDS Integers, Sequences, FiniteSets, TLC

VARIABLES
    base_df,          \* the caller's first data set  (base_df / self.df1)
    compare_df,       \* the caller's second data set (compare_df / self.df2)
    pc,               \* "loaded", "dash_done", "dash_warning", "dash_error",
                      \* "tk_dialog", "tk_running", "tk_done", "tk_error",
                      \* "tk_shown", "qt_done"
    results,          \* the dict DataHandler.run_comparison returned, or NoResults
    column_stats,     \* the column statistics list of the rendered section
    mismatch_rows,    \* the mismatch records of the rendered mismatch table
    compare_result,   \* the Tkinter tool's datacompy.Compare object, or NoResults
    session_store,    \* the session's DuckDB tables comparison_results, mismatch_details
    alert,            \* the alert shown in place of the results section, or NoAlert
    parsed,           \* the handler's last call parsed the stored data sets
    n_clicks,         \* the Run button's n_clicks
    tk_request,       \* the Tkinter thread's arguments and the option variables it reads
    messagebox,       \* the text of the Tkinter tool's error dialog, "" when none
    columns_tree,     \* the rows of the Tkinter results window's Columns tab
    worker_results,   \* the dict the PyQt ComparisonWorker emitted, or NoResults
    window,           \* PyQt MainWindow: df1, df2, compare_btn, compare_progress
    source,           \* PyQt DataSourceWidget 1 and 2: load_btn, progress
    loader,           \* the DataLoaderThread of each DataSourceWidget
    worker,           \* MainWindow.worker, the ComparisonWorker thread
    events,           \* the signals queued for the PyQt main thread, oldest first
    qt_clicks,        \* clicks so far on the Load buttons and on Compare
    browser,          \* the Dash page: the stores and the properties of the two dialogs
    pending,          \* the Dash callbacks requested by the page and not yet answered
    input_window,     \* Tkinter DataInputWindow: df1, df2, config window, progress window
    ops,              \* the background operations the Tkinter window started, oldest first
    after_queue,      \* the callbacks passed to parent.after(0, ...), oldest first
    handler,          \* the DuckDBHandler: its dataset tables and what its last call returned
    session_dir       \* the session files of the working directory, with their age in hours

dash_vars == <<results, column_stats, mismatch_rows, session_store, alert, parsed, n_clicks>>
tk_vars == <<compare_result, tk_request, messagebox, columns_tree>>
qt_vars == <<window, source, loader, worker, events, qt_clicks>>
page_vars == <<browser, pending>>
progress_vars == <<input_window, ops, after_queue>>
session_vars == <<handler, session_dir>>

\* The comparison of two loaded data sets
core_vars == <<base_df, compare_df, pc, dash_vars, tk_vars, worker_results>>
\* Loading, dialogs, threads and session files around it
side_vars == <<qt_vars, page_vars, progress_vars, session_vars>>

vars == <<core_vars, side_vars>>

----------------------------------------------------------------------------
(* Bounds of the model *)

MaxRows == 3          \* rows of the two data sets together
MaxClicks == 2        \* clicks on the Run button in one session
MaxDesktopRows == 2   \* rows of the two files of a desktop tool together
MaxLoads == 3         \* clicks on the Load buttons of the PyQt window
MaxCompares == 2      \* clicks on the Compare button of the PyQt window
MaxUploads == 3       \* files dropped on the upload areas of the Dash CSV dialog
MaxPageRuns == 1      \* comparisons answered for the Dash column selection dialog
MaxOps == 3           \* background operations started in the Tkinter window
MaxStores == 3        \* store_base_dataset and store_compare_dataset calls of a session
MaxAgeHours == 36     \* age up to which the model follows a session file
MaxCleanups == 2      \* clicks on the cleanup buttons of the session dialog

----------------------------------------------------------------------------
(* Cells, rows, frames *)

Null == <<>>
IsNull(c) == c = Null
NotNa(c) == c # Null

Range(s) == {s[i] : i \in DOMAIN s}

Abs(n) == IF n < 0 THEN -n ELSE n
Max(a, b) == IF a >= b THEN a ELSE b
Min(a, b) == IF a <= b THEN a ELSE b

RECURSIVE Flatten(_)
Flatten(ss) == IF ss = <<>> THEN <<>> ELSE Head(ss) \o Flatten(Tail(ss))

NoResults == [none |-> TRUE]
NoAlert == [color |-> "", text |-> "", raised |-> ""]

----------------------------------------------------------------------------
(* datacompy.Compare: what the library call computes on two frames *)

DF1Name == "base"          \* df1_name='base'
DF2Name == "compare"       \* df2_name='compare'

\* cast_column_names_lower: str(col).lower() on the names the model uses.
Lower(name) == IF name = "X" THEN "x" ELSE name
LowerAll(cols) == [k \in DOMAIN cols |-> Lower(cols[k])]

\* _validate_dataframe: the frame with its column names lower-cased.
LowerFrame(df) ==
    [columns |-> LowerAll(df.columns),
     rows |-> [i \in DOMAIN df.rows |->
                 [c \in Range(LowerAll(df.columns)) |->
                     df.rows[i][CHOOSE o \in Range(df.columns) : Lower(o) = c]]]]

\* Compare.intersect_columns(): OrderedSet(df1.columns) & OrderedSet(df2.columns)
IntersectColumns(df1, df2) ==
    SelectSeq(df1.columns, LAMBDA c : c \in Range(df2.columns))

\* Compare.df1_unq_columns(): OrderedSet(df1.columns) - OrderedSet(df2.columns)
Df1UnqColumns(df1, df2) ==
    SelectSeq(df1.columns, LAMBDA c : c \notin Range(df2.columns))

\* Compare.df2_unq_columns()
Df2UnqColumns(df1, df2) ==
    SelectSeq(df2.columns, LAMBDA c : c \notin Range(df1.columns))

\* The join-key tuple of a row.
KeyOf(row, join) == [k \in DOMAIN join |-> row[join[k]]]

\* _validate_dataframe: drop_duplicates(subset=join_columns) shortens the frame.
HasDupes(df, join) ==
    \E i, k \in DOMAIN df.rows :
        i < k /\ KeyOf(df.rows[i], join) = KeyOf(df.rows[k], join)

\* The rows of a key numbered from the last one
CumCountFromLast(df, join, i) ==
    Cardinality({k \in (i + 1)..Len(df.rows) :
                    KeyOf(df.rows[k], join) = KeyOf(df.rows[i], join)})

\* generate_id_within_group: groupby(join_columns).cumcount(); nulls form a group.
CumCount(df, join, i) ==
    Cardinality({k \in 1..(i - 1) : KeyOf(df.rows[k], join) = KeyOf(df.rows[i], join)})

\* A merge on the join columns alone, whatever the duplicates
OrderColumnAbsent(df, join, dupes, i) == <<0>>

\* The temporary order column _dataframe_merge adds when either frame has
\* duplicate keys (no column otherwise: the same value on every row).
OrderColumn(df, join, dupes, i) ==
    IF dupes THEN <<CumCount(df, join, i)>> ELSE <<0>>

\* The tuple df1.merge(df2, on=join_columns + [order_column]) joins on.
MergeKey(df, join, dupes, i) ==
    Append(KeyOf(df.rows[i], join), OrderColumn(df, join, dupes, i))

\* A join in which a null key component equals nothing (SQL's NULL)
KeysJoinNullsApart(k1, k2) ==
    k1 = k2 /\ \A p \in DOMAIN k1 : NotNa(k1[p])

\* pandas.merge equates keys component by component; NaN keys equal each other.
KeysJoin(k1, k2) == k1 = k2

\* Sort order of merge keys (how="outer" sorts the keys; NaN sorts last).
CellLess(a, b) ==
    IF IsNull(a) THEN FALSE ELSE IF IsNull(b) THEN TRUE ELSE a[1] < b[1]
KeyLess(k1, k2) ==
    \E p \in DOMAIN k1 :
        /\ \A q \in 1..(p - 1) : k1[q] = k2[q]
        /\ CellLess(k1[p], k2[p])

\* The rows of the outer merge, given each frame's merge keys: l, r are the
\* positions of the df1 and df2 rows a merged row comes from (0: none, the
\* _merge indicator is then left_only or right_only).
MergedRowsOf(K1, K2) ==
    {[l |-> p[1], r |-> p[2]] : p \in
        {p \in (DOMAIN K1) \X (DOMAIN K2) : KeysJoin(K1[p[1]], K2[p[2]])}}
    \cup {[l |-> i, r |-> 0] : i \in
        {i \in DOMAIN K1 : \A j \in DOMAIN K2 : ~KeysJoin(K1[i], K2[j])}}
    \cup {[l |-> 0, r |-> j] : j \in
        {j \in DOMAIN K2 : \A i \in DOMAIN K1 : ~KeysJoin(K1[i], K2[j])}}

\* Merged rows kept in the order of the rows of df1 (a merge that does not sort)
MergedLessByPosition(k1, m1, k2, m2) ==
    \/ (IF m1.l > 0 THEN m1.l ELSE 1000) < (IF m2.l > 0 THEN m2.l ELSE 1000)
    \/ /\ m1.l = 0
       /\ m2.l = 0
       /\ m1.r < m2.r

\* Merged rows are ordered by key, rows of one key by their positions.
MergedLess(k1, m1, k2, m2) ==
    \/ KeyLess(k1, k2)
    \/ /\ k1 = k2
       /\ \/ m1.l < m2.l
          \/ m1.l = m2.l /\ m1.r < m2.r

MergedKeyOf(K1, K2, m) == IF m.l > 0 THEN K1[m.l] ELSE K2[m.r]

\* The merged rows `all` as a sequence in sort order; idx is the merged frame's index.
SortMerged(all, key) ==
    [n \in 1..Cardinality(all) |->
        LET m == CHOOSE m \in all :
                    Cardinality({m2 \in all : MergedLess(key[m2], m2, key[m], m)}) = n - 1
        IN  [idx |-> n - 1, l |-> m.l, r |-> m.r]]

SortMergedRows(K1, K2, all) ==
    SortMerged(all, [m \in all |-> MergedKeyOf(K1, K2, m)])

OuterJoinOf(K1, K2) == SortMergedRows(K1, K2, MergedRowsOf(K1, K2))

\* outer_join = df1.merge(df2, how="outer", on=join_columns (+ order column), indicator=True)
OuterJoin(df1, df2, join, dupes) ==
    OuterJoinOf([i \in DOMAIN df1.rows |-> MergeKey(df1, join, dupes, i)],
                [j \in DOMAIN df2.rows |-> MergeKey(df2, join, dupes, j)])

\* isclose with a band that the tolerances narrow
ColumnsEqualNarrowing(a, b, rel_tol, abs_tol) ==
    IF IsNull(a) \/ IsNull(b)
    THEN IsNull(a) /\ IsNull(b)
    ELSE Abs(a[1] - b[1]) + abs_tol + rel_tol * Abs(b[1]) <= 2

\* isclose with a strict bound
ColumnsEqualStrict(a, b, rel_tol, abs_tol) ==
    IF IsNull(a) \/ IsNull(b)
    THEN IsNull(a) /\ IsNull(b)
    ELSE Abs(a[1] - b[1]) < abs_tol + rel_tol * Abs(b[1])

\* columns_equal: numpy.isclose(col_1, col_2, rtol=rel_tol, atol=abs_tol, equal_nan=True)
ColumnsEqual(a, b, rel_tol, abs_tol) ==
    IF IsNull(a) \/ IsNull(b)
    THEN IsNull(a) /\ IsNull(b)
    ELSE Abs(a[1] - b[1]) <= abs_tol + rel_tol * Abs(b[1])

\* The intersect columns that are compared cell by cell (_intersect_compare
\* gives a `<column>_match` flag to every intersect column not in join_columns).
MatchColumns(df1, df2, join) ==
    SelectSeq(IntersectColumns(df1, df2), LAMBDA c : c \notin Range(join))

\* _intersect_compare: the merged rows with _merge == "both" and their _match flags
IntersectRows(df1, df2, both, mcols, rel_tol, abs_tol) ==
    [n \in DOMAIN both |->
        [idx |-> both[n].idx, l |-> both[n].l, r |-> both[n].r,
         match |-> [c \in mcols |->
             ColumnsEqual(df1.rows[both[n].l][c], df2.rows[both[n].r][c], rel_tol, abs_tol)]]]

\* The Compare object once the frames are merged:
\*   intersect_rows  merged rows with _merge == "both", each with its _match flags
\*   df1_unq_rows    merged rows with _merge == "left_only"
\*   df2_unq_rows    merged rows with _merge == "right_only"
CompareMerged(df1, df2, join, abs_tol, rel_tol, dupes, outer) ==
    [error |-> "",
     df1 |-> df1,
     df2 |-> df2,
     join_columns |-> join,
     abs_tol |-> abs_tol,
     rel_tol |-> rel_tol,
     any_dupes |-> dupes,
     intersect_rows |->
         IntersectRows(df1, df2, SelectSeq(outer, LAMBDA m : m.l > 0 /\ m.r > 0),
                       Range(MatchColumns(df1, df2, join)), rel_tol, abs_tol),
     df1_unq_rows |-> SelectSeq(outer, LAMBDA m : m.r = 0),
     df2_unq_rows |-> SelectSeq(outer, LAMBDA m : m.l = 0)]

CompareDupes(df1, df2, join, abs_tol, rel_tol, dupes) ==
    CompareMerged(df1, df2, join, abs_tol, rel_tol, dupes, OuterJoin(df1, df2, join, dupes))

\* Compare._validate_dataframe(index): the message of the ValueError it raises
\* on the frame (already lower-cased when asked for), "" when it raises none.
ValidateDataframe(index, df, join) ==
    IF ~(Range(join) \subseteq Range(df.columns))
    THEN index \o " must have all columns from join_columns"
    ELSE IF Cardinality(Range(df.columns)) < Len(df.columns)
         THEN index \o " must have unique column names"
         ELSE ""

\* Compare.__init__: the df1 setter validates df1, then the df2 setter df2, then
\* the frames are merged and compared.  df1 and df2 are the caller's frame
\* objects as the call leaves them: a frame that was reached before the
\* ValueError keeps the column names the validation gave it.
CompareValidated(df1, frame2, df2, join, abs_tol, rel_tol) ==
    IF ValidateDataframe("df1", df1, join) # ""
    THEN [error |-> ValidateDataframe("df1", df1, join), df1 |-> df1, df2 |-> frame2]
    ELSE IF ValidateDataframe("df2", df2, join) # ""
         THEN [error |-> ValidateDataframe("df2", df2, join), df1 |-> df1, df2 |-> df2]
         ELSE CompareDupes(df1, df2, join, abs_tol, rel_tol,
                           HasDupes(df1, join) \/ HasDupes(df2, join))

\* datacompy.Compare(df1, df2, join_columns, abs_tol, rel_tol, cast_column_names_lower)
Compare(frame1, frame2, join_columns, abs_tol, rel_tol, cast_lower) ==
    IF cast_lower
    THEN CompareValidated(LowerFrame(frame1), frame2, LowerFrame(frame2),
                          LowerAll(join_columns), abs_tol, rel_tol)
    ELSE CompareValidated(frame1, frame2, frame2, join_columns, abs_tol, rel_tol)

\* A column with a missing value holds floats (NaN); so does a column of the
\* merged frame that the other side's unmatched rows leave empty.
HasNull(df, col) == \E i \in DOMAIN df.rows : IsNull(df.rows[i][col])

\* The cell of a row of all_mismatch under column `col`.
MismatchCell(cmp, mcols, m, col) ==
    IF col \in Range(cmp.join_columns)
    THEN cmp.df1.rows[m.l][col]
    ELSE IF \E c \in Range(mcols) : col = c \o "_" \o DF1Name
         THEN cmp.df1.rows[m.l][CHOOSE c \in Range(mcols) : col = c \o "_" \o DF1Name]
         ELSE cmp.df2.rows[m.r][CHOOSE c \in Range(mcols) : col = c \o "_" \o DF2Name]

AllMismatchFrame(cmp, mcols, cols, bad) ==
    [columns |-> cols,
     floats |-> {c \o "_" \o DF1Name : c \in
                    {c \in Range(mcols) : cmp.df2_unq_rows # <<>> \/ HasNull(cmp.df1, c)}}
                \cup {c \o "_" \o DF2Name : c \in
                    {c \in Range(mcols) : cmp.df1_unq_rows # <<>> \/ HasNull(cmp.df2, c)}},
     rows |-> [n \in DOMAIN bad |->
                 [idx |-> bad[n].idx, l |-> bad[n].l, r |-> bad[n].r,
                  cells |-> [col \in Range(cols) |-> MismatchCell(cmp, mcols, bad[n], col)]]]]

\* The intersect rows with a true _match flag instead
AllMismatchOfMatching(cmp, mcols) ==
    AllMismatchFrame(cmp, mcols,
        cmp.join_columns \o
            Flatten([k \in DOMAIN mcols |->
                        <<mcols[k] \o "_" \o DF1Name, mcols[k] \o "_" \o DF2Name>>]),
        SelectSeq(cmp.intersect_rows, LAMBDA m : \E c \in Range(mcols) : m.match[c]))

AllMismatchOf(cmp, mcols) ==
    AllMismatchFrame(cmp, mcols,
        cmp.join_columns \o
            Flatten([k \in DOMAIN mcols |->
                        <<mcols[k] \o "_" \o DF1Name, mcols[k] \o "_" \o DF2Name>>]),
        SelectSeq(cmp.intersect_rows, LAMBDA m : \E c \in Range(mcols) : ~m.match[c]))

\* Compare.all_mismatch(): the intersect rows with a false _match flag, with the
\* columns join_columns + [<c>_<df1_name>, <c>_<df2_name> for each compared c].
AllMismatch(cmp) == AllMismatchOf(cmp, MatchColumns(cmp.df1, cmp.df2, cmp.join_columns))

\* Compare.report(): the row summary of the text report
Report(comparison) ==
    [rows_in_common |-> Len(comparison.intersect_rows),
     rows_only_base |-> Len(comparison.df1_unq_rows),
     rows_only_compare |-> Len(comparison.df2_unq_rows),
     any_duplicates |-> IF comparison.any_dupes THEN "Yes" ELSE "No"]

----------------------------------------------------------------------------
(* utils/data_handler.py: DataHandler *)

\* Series.isnull().sum() of a column
NullCount(df, col) == Cardinality({i \in DOMAIN df.rows : IsNull(df.rows[i][col])})

\* str(df[col].dtype) of a frame parsed by pd.read_json / pd.read_csv from
\* integers and blanks: a column with a missing value is float64.
Dtype(df, col) ==
    IF df.rows = <<>> THEN "object"
    ELSE IF NullCount(df, col) > 0 THEN "float64" ELSE "int64"

RECURSIVE Gcd(_, _)
Gcd(a, b) == IF b = 0 THEN a ELSE Gcd(b, a % b)

\* The value of num / den (Python's true division) as a fraction in lowest
\* terms, so that equal quotients are equal values; 0.0 is 0/1.
Ratio(num, den) == [num |-> num \div Gcd(num, den), den |-> den \div Gcd(num, den)]

\* _calculate_match_rate dividing by the smaller data set
CalculateMatchRateMin(comparison) ==
    IF Min(Len(comparison.df1.rows), Len(comparison.df2.rows)) = 0
    THEN Ratio(0, 1)
    ELSE Ratio(Len(comparison.intersect_rows),
               Min(Len(comparison.df1.rows), Len(comparison.df2.rows)))

\* DataHandler._calculate_match_rate
CalculateMatchRate(comparison) ==
    IF Max(Len(comparison.df1.rows), Len(comparison.df2.rows)) = 0
    THEN Ratio(0, 1)
    ELSE Ratio(Len(comparison.intersect_rows),
               Max(Len(comparison.df1.rows), Len(comparison.df2.rows)))

\* diff_rows[diff_rows[col].notna()]
NotNaRows(frame, col) ==
    [columns |-> frame.columns,
     floats |-> frame.floats,
     rows |-> SelectSeq(frame.rows, LAMBDA row : NotNa(row.cells[col]))]

ColumnDifferencesOf(intersect, columns_to_check, diff_rows) ==
    [col \in {col \in Range(columns_to_check) :
                 /\ col \in Range(intersect)
                 /\ diff_rows.rows # <<>>
                 /\ col \in Range(diff_rows.columns)}
        |-> NotNaRows(diff_rows, col)]

\* Every common column checked, whatever was selected
ColumnsToCheckAll(intersect, compare_columns) == intersect

\* columns_to_check = compare_columns or list(comparison.intersect_columns())
ColumnsToCheck(intersect, compare_columns) ==
    IF compare_columns # <<>> THEN compare_columns ELSE intersect

\* DataHandler._get_column_differences: a dict column -> frame
GetColumnDifferences(comparison, compare_columns) ==
    ColumnDifferencesOf(
        IntersectColumns(comparison.df1, comparison.df2),
        ColumnsToCheck(IntersectColumns(comparison.df1, comparison.df2), compare_columns),
        AllMismatch(comparison))

\* The entries kept for the columns whose dtypes are the same
GetDtypeMismatchesSame(comparison) ==
    [col \in {col \in Range(IntersectColumns(comparison.df1, comparison.df2)) :
                 Dtype(comparison.df1, col) = Dtype(comparison.df2, col)}
        |-> [base_dtype |-> Dtype(comparison.df1, col),
             compare_dtype |-> Dtype(comparison.df2, col)]]

\* DataHandler._get_dtype_mismatches
GetDtypeMismatches(comparison) ==
    [col \in {col \in Range(IntersectColumns(comparison.df1, comparison.df2)) :
                 Dtype(comparison.df1, col) # Dtype(comparison.df2, col)}
        |-> [base_dtype |-> Dtype(comparison.df1, col),
             compare_dtype |-> Dtype(comparison.df2, col)]]

\* 'base_only_rows' taken from the other side's unique rows
BaseOnlyRowsSwapped(comparison) == Len(comparison.df2_unq_rows)

\* 'base_only_rows': len(comparison.df1_unq_rows)
BaseOnlyRows(comparison) == Len(comparison.df1_unq_rows)

\* 'compare_only_rows': len(comparison.df2_unq_rows)
CompareOnlyRows(comparison) == Len(comparison.df2_unq_rows)

\* 'columns_base_only' taken from the other side's unique columns
ColumnsBaseOnlySwapped(comparison) == Df2UnqColumns(comparison.df1, comparison.df2)

\* 'columns_base_only': list(comparison.df1_unq_columns())
ColumnsBaseOnly(comparison) == Df1UnqColumns(comparison.df1, comparison.df2)

\* 'columns_compare_only': list(comparison.df2_unq_columns())
ColumnsCompareOnly(comparison) == Df2UnqColumns(comparison.df1, comparison.df2)

\* The library's exception escaping as it is, with what was built so far
ResultsOfUnwrapped(comparison, join_columns, compare_columns) ==
    IF comparison.error # ""
    THEN [error |-> comparison.error, type |-> "ValueError",
          join_columns |-> join_columns, compare_columns |-> compare_columns]
    ELSE [error |-> "",
          comparison_obj |-> comparison,
          base_shape |-> <<Len(comparison.df1.rows), Len(comparison.df1.columns)>>,
          compare_shape |-> <<Len(comparison.df2.rows), Len(comparison.df2.columns)>>,
          base_columns |-> comparison.df1.columns,
          join_columns |-> join_columns,
          compare_columns |-> compare_columns,
          intersect_rows |-> Len(comparison.intersect_rows),
          base_only_rows |-> BaseOnlyRows(comparison),
          compare_only_rows |-> CompareOnlyRows(comparison),
          total_rows_base |-> Len(comparison.df1.rows),
          total_rows_compare |-> Len(comparison.df2.rows),
          match_rate |-> CalculateMatchRate(comparison),
          column_diffs |-> GetColumnDifferences(comparison, compare_columns),
          summary_report |-> Report(comparison),
          columns_compared |-> IntersectColumns(comparison.df1, comparison.df2),
          columns_base_only |-> ColumnsBaseOnly(comparison),
          columns_compare_only |-> ColumnsCompareOnly(comparison),
          dtype_mismatches |-> GetDtypeMismatches(comparison)]

\* The results dict DataHandler.run_comparison builds from the Compare object
\* (kept under comparison_obj); an exception is "Comparison failed: ...".
ResultsOf(comparison, join_columns, compare_columns) ==
    IF comparison.error # ""
    THEN [error |-> "Comparison failed: " \o comparison.error, type |-> "Exception"]
    ELSE [error |-> "",
          comparison_obj |-> comparison,
          base_shape |-> <<Len(comparison.df1.rows), Len(comparison.df1.columns)>>,
          compare_shape |-> <<Len(comparison.df2.rows), Len(comparison.df2.columns)>>,
          base_columns |-> comparison.df1.columns,
          join_columns |-> join_columns,
          compare_columns |-> compare_columns,
          intersect_rows |-> Len(comparison.intersect_rows),
          base_only_rows |-> BaseOnlyRows(comparison),
          compare_only_rows |-> CompareOnlyRows(comparison),
          total_rows_base |-> Len(comparison.df1.rows),
          total_rows_compare |-> Len(comparison.df2.rows),
          match_rate |-> CalculateMatchRate(comparison),
          column_diffs |-> GetColumnDifferences(comparison, compare_columns),
          summary_report |-> Report(comparison),
          columns_compared |-> IntersectColumns(comparison.df1, comparison.df2),
          columns_base_only |-> ColumnsBaseOnly(comparison),
          columns_compare_only |-> ColumnsCompareOnly(comparison),
          dtype_mismatches |-> GetDtypeMismatches(comparison)]

\* DataHandler.run_comparison(base_df, compare_df, join_columns, compare_columns)
RunComparisonResults(base, compare, join_columns, compare_columns) ==
    ResultsOf(Compare(base, compare, join_columns, 0, 0, TRUE), join_columns, compare_columns)

\* Compare.matches(): no column and no row is on one side only, and every
\* row in common has all its _match flags true
Matches(comparison) ==
    /\ Df1UnqColumns(comparison.df1, comparison.df2) = <<>>
    /\ Df2UnqColumns(comparison.df1, comparison.df2) = <<>>
    /\ comparison.df1_unq_rows = <<>>
    /\ comparison.df2_unq_rows = <<>>
    /\ \A n \in DOMAIN comparison.intersect_rows :
          \A c \in DOMAIN comparison.intersect_rows[n].match :
             comparison.intersect_rows[n].match[c]

\* float(comparison.matches())
MatchesAsFloat(comparison) == IF Matches(comparison) THEN Ratio(1, 1) ELSE Ratio(0, 1)

\* The results dict handle_table_expansion builds from its Compare object
ExpansionResults(comparison, button_id) ==
    [error |-> "",
     comparison_obj |-> comparison,
     base_shape |-> <<Len(comparison.df1.rows), Len(comparison.df1.columns)>>,
     compare_shape |-> <<Len(comparison.df2.rows), Len(comparison.df2.columns)>>,
     intersect_rows |-> Len(comparison.intersect_rows),
     base_only_rows |-> Len(comparison.df1_unq_rows),
     compare_only_rows |-> Len(comparison.df2_unq_rows),
     match_rate |-> MatchesAsFloat(comparison),
     expand_mismatch |-> button_id = "expand-mismatch-btn",
     expand_base |-> button_id = "expand-base-btn",
     expand_compare |-> button_id = "expand-compare-btn"]

\* The cell of a row of all_mismatch under column `col`, for a Compare object
\* made with the given df1_name and df2_name
MismatchCellNamed(cmp, mcols, m, col, df1_name, df2_name) ==
    IF col \in Range(cmp.join_columns)
    THEN cmp.df1.rows[m.l][col]
    ELSE IF \E c \in Range(mcols) : col = c \o "_" \o df1_name
         THEN cmp.df1.rows[m.l][CHOOSE c \in Range(mcols) : col = c \o "_" \o df1_name]
         ELSE cmp.df2.rows[m.r][CHOOSE c \in Range(mcols) : col = c \o "_" \o df2_name]

AllMismatchFrameNamed(cmp, mcols, cols, bad, df1_name, df2_name) ==
    [columns |-> cols,
     floats |-> {c \o "_" \o df1_name : c \in
                    {c \in Range(mcols) : cmp.df2_unq_rows # <<>> \/ HasNull(cmp.df1, c)}}
                \cup {c \o "_" \o df2_name : c \in
                    {c \in Range(mcols) : cmp.df1_unq_rows # <<>> \/ HasNull(cmp.df2, c)}},
     rows |-> [n \in DOMAIN bad |->
                 [idx |-> bad[n].idx, l |-> bad[n].l, r |-> bad[n].r,
                  cells |-> [col \in Range(cols) |->
                                MismatchCellNamed(cmp, mcols, bad[n], col, df1_name, df2_name)]]]]

AllMismatchOfNamed(cmp, mcols, df1_name, df2_name) ==
    AllMismatchFrameNamed(cmp, mcols,
        cmp.join_columns \o
            Flatten([k \in DOMAIN mcols |->
                        <<mcols[k] \o "_" \o df1_name, mcols[k] \o "_" \o df2_name>>]),
        SelectSeq(cmp.intersect_rows, LAMBDA m : \E c \in Range(mcols) : ~m.match[c]),
        df1_name, df2_name)

\* comparison.all_mismatch() in create_comparison_section, for the Compare
\* object of handle_table_expansion (df1_name="Base", df2_name="Compare")
AllMismatchExpansion(cmp) ==
    AllMismatchOfNamed(cmp, MatchColumns(cmp.df1, cmp.df2, cmp.join_columns), "Base", "Compare")----------------------------------------------------------------------------
(* components/comparison_fixed.py *)

\* The column names the model's frames use.
ColumnNames == {"id", "val", "x"}

\* '_base' in col, col.replace('_base', ''), col.replace('_base', '_compare')
\* (no name of ColumnNames contains "_base" itself)
ContainsBase(col) == \E c \in ColumnNames : col = c \o "_base"
StripBase(col) == CHOOSE c \in ColumnNames : col = c \o "_base"
ReplaceBase(col) == StripBase(col) \o "_compare"

\* The Mismatch Count of a column (0 unless the column is one of all_mismatch's)
MismatchCount(col, all_mismatches_df) ==
    IF all_mismatches_df.rows # <<>> /\ col \in Range(all_mismatches_df.columns)
    THEN Len(all_mismatches_df.rows)
    ELSE 0

ColumnStatsOf(comparison, intersect, all_mismatches_df) ==
    [k \in DOMAIN intersect |->
        [Column |-> intersect[k],
         BaseDatatype |-> Dtype(comparison.df1, intersect[k]),
         CompareDatatype |-> Dtype(comparison.df2, intersect[k]),
         BaseNulls |-> NullCount(comparison.df1, intersect[k]),
         CompareNulls |-> NullCount(comparison.df2, intersect[k]),
         MismatchCount |-> MismatchCount(intersect[k], all_mismatches_df)]]

\* create_comparison_section: the column statistics list
ColumnStats(comparison, all_mismatches_df) ==
    ColumnStatsOf(comparison, IntersectColumns(comparison.df1, comparison.df2),
                  all_mismatches_df)

\* The Mismatch Type label of a record: base_val != compare_val (NaN differs
\* from everything) gives 'Value Difference'.
MismatchType(base_val, compare_val) ==
    IF IsNull(base_val) \/ IsNull(compare_val) \/ base_val # compare_val
    THEN "Value Difference"
    ELSE "Null Difference"

\* str(n) of the numbers the model's cells hold, as an int and as a float
Digits == <<"0", "1", "2", "3">>
Str(n, float) == IF float THEN Digits[n + 1] \o ".0" ELSE Digits[n + 1]

\* str(val) if pd.notna(val) else "NULL"
ValueText(cell, float) == IF NotNa(cell) THEN Str(cell[1], float) ELSE "NULL"

RowRecordsOf(row, shown, floats) ==
    [k \in DOMAIN shown |->
        [RowIndex |-> row.idx,
         ColumnName |-> StripBase(shown[k]),
         BaseValue |-> ValueText(row.cells[shown[k]], shown[k] \in floats),
         CompareValue |-> ValueText(row.cells[ReplaceBase(shown[k])],
                                    ReplaceBase(shown[k]) \in floats),
         MismatchType |-> MismatchType(row.cells[shown[k]],
                                       row.cells[ReplaceBase(shown[k])])]]

\* create_mismatch_data_table: the records of one row of all_mismatch
RowMismatchRecords(frame, row) ==
    RowRecordsOf(row,
        SelectSeq(frame.columns,
            LAMBDA col : /\ ContainsBase(col)
                         /\ ReplaceBase(col) \in Range(frame.columns)
                         /\ (NotNa(row.cells[col]) \/ NotNa(row.cells[ReplaceBase(col)]))),
        frame.floats)

\* create_mismatch_data_table: mismatch_rows over every row of all_mismatch
MismatchRows(all_mismatches_df) ==
    Flatten([n \in DOMAIN all_mismatches_df.rows |->
                RowMismatchRecords(all_mismatches_df, all_mismatches_df.rows[n])])

----------------------------------------------------------------------------
(* utils/duckdb_handler.py: DuckDBHandler *)

SessionId == "session"      \* self.session_id, a uuid4 string
NoRowId == -1               \* return -1

\* _initialize_schema: the tables are created empty
EmptyStore == [comparison_results |-> <<>>, mismatch_details |-> <<>>]

\* json.dumps of the results without 'comparison_obj' and 'column_diffs'
ResultsJson(res) == [k \in DOMAIN res \ {"comparison_obj", "column_diffs"} |-> res[k]]

\* The row store_comparison_results inserts; id is nextval('comparison_seq').
ComparisonRow(store, res) ==
    [id |-> Len(store.comparison_results) + 1,
     base_rows |-> res.total_rows_base,
     compare_rows |-> res.total_rows_compare,
     common_rows |-> res.intersect_rows,
     base_only_rows |-> res.base_only_rows,
     compare_only_rows |-> res.compare_only_rows,
     match_rate |-> res.match_rate,
     total_mismatches |-> res.base_only_rows + res.compare_only_rows,
     columns_compared |-> Len(res.columns_compared),
     column_differences |-> Cardinality(DOMAIN res.column_diffs),
     dtype_mismatches |-> Cardinality(DOMAIN res.dtype_mismatches),
     results_json |-> ResultsJson(res)]

\* store_comparison_results: the INSERT is executed; the connection that
\* conn.execute returns has no attribute lastrowid, so the handler takes its
\* except branch and returns -1 before _store_mismatch_details is called.
StoreComparisonResults(store, res) ==
    [store |-> [store EXCEPT !.comparison_results = Append(@, ComparisonRow(store, res))],
     comparison_id |-> NoRowId]

\* results['session_id'] = ...; comparison_id = store_comparison_results(results);
\* results['comparison_id'] = comparison_id
StoredResults(res, stored) ==
    [comparison_id |-> stored.comparison_id, session_id |-> SessionId] @@ res

StoreOf(store, res) == StoreComparisonResults(store, [session_id |-> SessionId] @@ res)

\* DuckDBHandler.get_comparison_results: the summary columns of the row of
\* comparison_results with the greatest id, None when the table is empty
\* (comparison_time is left out of the model)
GetComparisonResults(store) ==
    IF store.comparison_results = <<>>
    THEN NoResults
    ELSE [k \in {"id", "base_rows", "compare_rows", "common_rows", "base_only_rows",
                 "compare_only_rows", "match_rate", "total_mismatches", "columns_compared",
                 "column_differences", "dtype_mismatches"} |->
            store.comparison_results[Len(store.comparison_results)][k]]

----------------------------------------------------------------------------
(* Deepseek.py: DataInputWindow *)

RelTol == 0     \* rel_tol=0.0

\* run_comparison_in_thread: datacompy.Compare(self.df1, self.df2, join_columns=join_cols,
\* abs_tol=self.tolerance_var.get(), rel_tol=0.0, cast_column_names_lower=not case_sensitive)
ThreadCompare(df1, df2, join_cols, tolerance, case_sensitive) ==
    Compare(df1, df2, join_cols, tolerance, RelTol, ~case_sensitive)

\* ComparisonResults.setup_columns_tab: one tree row per column of either
\* frame, as (Dataset1, Dataset2, Match, Type1, Type2)
ColumnsTree(df1, df2) ==
    {[Dataset1 |-> col, Dataset2 |-> col,
      Match |-> IF Dtype(df1, col) = Dtype(df2, col) THEN "Yes" ELSE "No (Type mismatch)",
      Type1 |-> Dtype(df1, col), Type2 |-> Dtype(df2, col)] :
        col \in Range(df1.columns) \cap Range(df2.columns)}
    \cup {[Dataset1 |-> col, Dataset2 |-> "", Match |-> "No",
           Type1 |-> Dtype(df1, col), Type2 |-> ""] :
             col \in Range(df1.columns) \ Range(df2.columns)}
    \cup {[Dataset1 |-> "", Dataset2 |-> col, Match |-> "No",
           Type1 |-> "", Type2 |-> Dtype(df2, col)] :
             col \in Range(df2.columns) \ Range(df1.columns)}

----------------------------------------------------------------------------
(* Deepseek_pyqtw.ComparisonWorker *)

\* ComparisonWorker.compare_schema
CompareSchema(df1, df2) ==
    [common_columns |-> Range(df1.columns) \cap Range(df2.columns),
     unique_to_df1 |-> Range(df1.columns) \ Range(df2.columns),
     unique_to_df2 |-> Range(df2.columns) \ Range(df1.columns)]

\* ComparisonWorker.compare_row_count
CompareRowCount(df1, df2) ==
    [df1_rows |-> Len(df1.rows), df2_rows |-> Len(df2.rows),
     difference |-> Abs(Len(df1.rows) - Len(df2.rows))]

\* The results dict of ComparisonWorker.run: one entry per method
WorkerResults(df1, df2, comparison_methods) ==
    [method \in Range(comparison_methods) |->
        IF method = "schema" THEN CompareSchema(df1, df2) ELSE CompareRowCount(df1, df2)]

----------------------------------------------------------------------------
(* Deepseek_pyqtw.py: the threads, DataSourceWidget and MainWindow *)

\* The variables the PyQt window leaves alone
not_qt_vars == <<core_vars, page_vars, progress_vars, session_vars>>

\* The files a DataLoaderThread reads. Cells are integers; `text` names the
\* columns whose cells stand for strings (dtype object).
QtFiles ==
    {[columns |-> <<"id", "val">>, rows |-> <<[id |-> <<1>>, val |-> <<0>>]>>, text |-> {}],
     [columns |-> <<"id", "val", "X">>,
      rows |-> <<[id |-> <<1>>, val |-> <<0>>, X |-> <<0>>]>>, text |-> {"val"}]}

\* The methods ticked in the window, in the order compare_datasets appends
\* them; the model computes schema, row_count and differences.
QtMethodChoices ==
    {<<"schema">>, <<"schema", "row_count">>, <<"row_count", "differences">>}

Signal(sender, name, arg) == [sender |-> sender, signal |-> name, arg |-> arg]

Terminal == {"finished", "error"}

\* The values DataLoaderThread.run passes to progress.emit, by source type
LoaderProgress(source_type) == IF source_type = "csv" THEN <<30, 100>> ELSE <<20, 50, 100>>

\* pd.merge raises ValueError for a key column that is object in one frame
\* and numeric in the other, unless one of the frames has no rows
MergeRaises(df1, df2) ==
    /\ df1.rows # <<>>
    /\ df2.rows # <<>>
    /\ \E col \in Range(df1.columns) \cap Range(df2.columns) : (col \in df1.text) # (col \in df2.text)

Project(row, cols) == [c \in cols |-> row[c]]

\* The rows of `df`, restricted to `cols`, that no row of `other` equals
Unmatched(df, other, cols, side) ==
    {[row |-> Project(df.rows[i], cols), indicator |-> side,
      count |-> Cardinality({j \in DOMAIN df.rows :
                                Project(df.rows[j], cols) = Project(df.rows[i], cols)})] :
        i \in {k \in DOMAIN df.rows :
                 \A j \in DOMAIN other.rows :
                    Project(other.rows[j], cols) # Project(df.rows[k], cols)}}

\* ComparisonWorker.find_differences: the rows of the outer merge on the
\* common columns whose _merge is not 'both', each with its multiplicity
FindDifferences(df1, df2) ==
    IF Range(df1.columns) \cap Range(df2.columns) = {}
    THEN {}
    ELSE Unmatched(df1, df2, Range(df1.columns) \cap Range(df2.columns), "left_only")
         \cup Unmatched(df2, df1, Range(df1.columns) \cap Range(df2.columns), "right_only")

\* The entry one pass of the loop of ComparisonWorker.run stores
MethodResult(df1, df2, method) ==
    IF method = "schema" THEN CompareSchema(df1, df2)
    ELSE IF method = "row_count" THEN CompareRowCount(df1, df2)
    ELSE FindDifferences(df1, df2)

\* The progress values counted down from 100
StepProgressCountdown(i, total_steps) == ((total_steps - i) * 100) \div total_steps

\* int((i / total_steps) * 100)
StepProgress(i, total_steps) == (i * 100) \div total_steps

IdleThread == [state |-> "idle", emitted |-> <<>>]

IdleSource == [load_btn |-> TRUE, progress |-> [visible |-> FALSE, value |-> -1]]

\* MainWindow.__init__ and init_ui: no data set, Compare disabled
QtIdle ==
    /\ window = [df1 |-> NoResults, df2 |-> NoResults, compare_btn |-> FALSE,
                 compare_progress |-> [visible |-> FALSE, value |-> -1],
                 displayed |-> NoResults, aborted |-> FALSE]
    /\ source = [i \in {1, 2} |-> IdleSource]
    /\ loader = [i \in {1, 2} |-> IdleThread]
    /\ worker = IdleThread
    /\ events = <<>>
    /\ qt_clicks = [load |-> 0, compare |-> 0]

\* DataSourceWidget.load_data on a valid form: the Load button is disabled,
\* load_started reaches MainWindow.on_load_started at once, the thread starts.
LoadData(i) ==
    /\ ~window.aborted
    /\ source[i].load_btn
    /\ qt_clicks.load < MaxLoads
    /\ qt_clicks' = [qt_clicks EXCEPT !.load = @ + 1]
    /\ source' = [source EXCEPT ![i].load_btn = FALSE, ![i].progress.visible = TRUE]
    /\ window' = [window EXCEPT !.compare_btn = FALSE]
    /\ \E source_type \in {"csv", "sql"} :
          loader' = [loader EXCEPT ![i] = [state |-> "running", emitted |-> <<>>,
                                           source_type |-> source_type]]
    /\ UNCHANGED <<worker, events, not_qt_vars>>

\* The signals of one DataLoaderThread.run, in the order of their emit calls:
\* the progress values and finished(df), or, when the call after the
\* raised_at-th progress value raises (pd.read_csv; create_engine,
\* pd.read_sql), the progress values up to there and error from the except
\* clause. raised_at = 0: nothing raises.
LoaderSignals(i, source_type, raised_at, df) ==
    IF raised_at = 0
    THEN [k \in 1..Len(LoaderProgress(source_type)) |->
             Signal(i, "progress", LoaderProgress(source_type)[k])]
         \o <<Signal(i, "finished", df)>>
    ELSE [k \in 1..raised_at |-> Signal(i, "progress", LoaderProgress(source_type)[k])]
         \o <<Signal(i, "error", "load failed")>>

\* DataLoaderThread.run: the thread of source i runs to its end; its signals
\* are queued for the main thread.
LoaderRun(i) ==
    /\ ~window.aborted
    /\ loader[i].state = "running"
    /\ \E raised_at \in 0..(Len(LoaderProgress(loader[i].source_type)) - 1) :
       \E df \in IF raised_at = 0 THEN QtFiles ELSE {NoResults} :
       \E sigs \in {LoaderSignals(i, loader[i].source_type, raised_at, df)} :
          /\ events' = events \o sigs
          /\ loader' = [loader EXCEPT ![i].state = "returned", ![i].emitted = sigs]
    /\ UNCHANGED <<window, source, worker, qt_clicks, not_qt_vars>>

\* MainWindow.compare_datasets with both data sets loaded and a method
\* ticked. Replacing self.worker while its thread runs destroys a running
\* QThread, which ends the process.
CompareDatasets ==
    /\ ~window.aborted
    /\ window.compare_btn
    /\ window.df1 # NoResults
    /\ window.df2 # NoResults
    /\ qt_clicks.compare < MaxCompares
    /\ qt_clicks' = [qt_clicks EXCEPT !.compare = @ + 1]
    /\ window' = [window EXCEPT !.compare_btn = FALSE, !.compare_progress.visible = TRUE,
                                !.aborted = (worker.state = "running")]
    /\ \E methods \in QtMethodChoices :
          worker' = [state |-> "running", emitted |-> <<>>, run |-> qt_clicks.compare + 1,
                     df1 |-> window.df1, df2 |-> window.df2,
                     comparison_methods |-> methods]
    /\ UNCHANGED <<source, loader, events, not_qt_vars>>

\* The passes of the loop of ComparisonWorker.run whose method raises
RaisingSteps(df1, df2, comparison_methods) ==
    {k \in DOMAIN comparison_methods :
        comparison_methods[k] = "differences" /\ MergeRaises(df1, df2)}

\* The results dict after the loop of ComparisonWorker.run: one entry per method
QtWorkerResults(df1, df2, comparison_methods) ==
    [method \in Range(comparison_methods) |-> MethodResult(df1, df2, method)]

\* The signals of one ComparisonWorker.run, in the order of their emit calls:
\* a progress value at the start of every pass of the loop, then progress 100
\* and finished(results); a pass whose method raises is followed by error
\* from the except clause and nothing else.
WorkerSignals(run, df1, df2, comparison_methods, raising) ==
    IF raising = {}
    THEN [k \in DOMAIN comparison_methods |->
             Signal(0, "progress", StepProgress(k - 1, Len(comparison_methods)))]
         \o <<Signal(0, "progress", 100),
              Signal(0, "finished", [run |-> run,
                                     results |-> QtWorkerResults(df1, df2, comparison_methods)])>>
    ELSE [k \in 1..(CHOOSE f \in raising : \A g \in raising : f <= g) |->
             Signal(0, "progress", StepProgress(k - 1, Len(comparison_methods)))]
         \o <<Signal(0, "error", [run |-> run, error_msg |-> "merge failed"])>>

\* ComparisonWorker.run: the worker thread runs to its end; its signals are
\* queued for the main thread.
WorkerRun ==
    /\ ~window.aborted
    /\ worker.state = "running"
    /\ \E sigs \in {WorkerSignals(worker.run, worker.df1, worker.df2, worker.comparison_methods,
                                   RaisingSteps(worker.df1, worker.df2,
                                                worker.comparison_methods))} :
          /\ events' = events \o sigs
          /\ worker' = [worker EXCEPT !.state = "returned", !.emitted = sigs]
    /\ UNCHANGED <<window, source, loader, qt_clicks, not_qt_vars>>

\* DataSourceWidget.on_data_loaded, whose data_loaded signal runs
\* MainWindow.on_data_loaded(df, source_name, dataset_num) at once
OnDataLoaded(i, df) ==
    /\ source' = [source EXCEPT ![i].load_btn = TRUE, ![i].progress.visible = FALSE]
    /\ \E df1 \in {IF i = 1 THEN df ELSE window.df1}, df2 \in {IF i = 2 THEN df ELSE window.df2} :
          window' = [window EXCEPT !.df1 = df1, !.df2 = df2,
                                   !.compare_btn = IF df1 # NoResults /\ df2 # NoResults
                                                   THEN TRUE ELSE @]

\* DataSourceWidget.on_load_error: the window is not told
OnLoadError(i) ==
    /\ source' = [source EXCEPT ![i].load_btn = TRUE, ![i].progress.visible = FALSE]
    /\ UNCHANGED window

\* MainWindow.on_comparison_finished
OnComparisonFinished(res) ==
    /\ window' = [window EXCEPT !.compare_btn = TRUE, !.compare_progress.visible = FALSE,
                                !.displayed = res]
    /\ UNCHANGED source

\* MainWindow.on_comparison_error
OnComparisonError ==
    /\ window' = [window EXCEPT !.compare_btn = TRUE, !.compare_progress.visible = FALSE]
    /\ UNCHANGED source

\* The main thread's event loop runs the slot of the oldest queued signal
Dispatch ==
    /\ ~window.aborted
    /\ events # <<>>
    /\ events' = Tail(events)
    /\ \E e \in {Head(events)} :
          IF e.signal = "progress"
          THEN IF e.sender = 0
               THEN /\ window' = [window EXCEPT !.compare_progress.value = e.arg]
                    /\ UNCHANGED source
               ELSE /\ source' = [source EXCEPT ![e.sender].progress.value = e.arg]
                    /\ UNCHANGED window
          ELSE IF e.sender = 0
               THEN IF e.signal = "finished"
                    THEN OnComparisonFinished(e.arg.results)
                    ELSE OnComparisonError
               ELSE IF e.signal = "finished"
                    THEN OnDataLoaded(e.sender, e.arg)
                    ELSE OnLoadError(e.sender)
    /\ loader' = [i \in {1, 2} |->
                    IF Head(events).sender = i /\ Head(events).signal \in Terminal
                    THEN IdleThread ELSE loader[i]]
    /\ worker' = IF Head(events).sender = 0 /\ Head(events).signal \in Terminal
                    /\ worker.state = "returned" /\ Head(events).arg.run = worker.run
                 THEN IdleThread ELSE worker
    /\ UNCHANGED <<qt_clicks, not_qt_vars>>

----------------------------------------------------------------------------
(* Deepseek.py: the progress window and the background operations *)

\* The variables the Tkinter window's progress handling leaves alone
not_progress_vars == <<core_vars, qt_vars, page_vars, session_vars>>

\* DataInputWindow.__init__: no data set, no progress window. `toplevels`
\* holds the progress windows that exist, `progress_window` is
\* self.progress_window (0 for None), `created` counts the Toplevels made.
ProgressIdle ==
    /\ input_window = [df1 |-> FALSE, df2 |-> FALSE, config_window |-> FALSE,
                       progress_window |-> 0, toplevels |-> {}, created |-> 0]
    /\ ops = <<>>
    /\ after_queue = <<>>

\* DataInputWindow.show_progress: an existing progress window is destroyed,
\* a new Toplevel is created and takes the grab
ShowProgress(w) ==
    [w EXCEPT !.toplevels = (IF w.progress_window # 0 /\ w.progress_window \in w.toplevels
                             THEN @ \ {w.progress_window} ELSE @) \cup {w.created + 1},
              !.progress_window = w.created + 1,
              !.created = @ + 1]

\* DataInputWindow.hide_progress
HideProgress(w) ==
    [w EXCEPT !.toplevels = IF w.progress_window # 0 /\ w.progress_window \in w.toplevels
                            THEN @ \ {w.progress_window} ELSE @,
              !.progress_window = 0]

\* The ways the body of a thread can end. load_file_thread: the file is read;
\* load_large_file caught the error, showed it and returned None; the name
\* ends neither in .csv nor in .xlsx; pd.read_excel raised.
\* execute_sql_thread: both queries ran; the first raised; the second raised.
\* run_comparison_in_thread: datacompy.Compare returned or raised.
ThreadOutcomes(kind) ==
    IF kind \in {"load_file1", "load_file2"}
    THEN {"loaded", "shown_in_thread", "unsupported", "raised"}
    ELSE IF kind = "compare_sql" THEN {"ok", "raised", "raised_second"}
    ELSE {"ok", "raised"}

\* A finally clause that schedules hide_progress only when the thread
\* scheduled nothing else
FinallyWhenQuiet(callbacks) ==
    IF callbacks = <<>> THEN <<"hide_progress">> ELSE callbacks

\* The finally clause of the three thread functions

Finally(callbacks) == Append(callbacks, "hide_progress")

\* The callbacks load_file_thread passes to parent.after, in order
LoadFileThread(outcome) ==
    Finally(IF outcome = "loaded" THEN <<"show_preview", "showinfo">>
            ELSE IF outcome = "shown_in_thread" THEN <<>>
            ELSE <<"showerror">>)

\* The callbacks execute_sql_thread passes to parent.after, in order
ExecuteSqlThread(outcome) ==
    Finally(IF outcome = "ok"
            THEN <<"show_preview", "show_preview", "prepare_csv_comparison">>
            ELSE <<"showerror">>)

\* The callbacks run_comparison_in_thread passes to parent.after, in order
RunComparisonInThreadCallbacks(outcome) ==
    Finally(IF outcome = "ok" THEN <<"show_comparison_results">> ELSE <<"showerror">>)

ThreadCallbacks(kind, outcome) ==
    IF kind \in {"load_file1", "load_file2"} THEN LoadFileThread(outcome)
    ELSE IF kind = "compare_sql" THEN ExecuteSqlThread(outcome)
    ELSE RunComparisonInThreadCallbacks(outcome)

\* The data sets after the body of a thread: load_file_thread sets its data
\* set when the file was read, execute_sql_thread sets df1 after the first
\* query and df2 after the second.
ThreadAssigns(w, kind, outcome) ==
    [w EXCEPT !.df1 = @ \/ (kind = "load_file1" /\ outcome = "loaded")
                        \/ (kind = "compare_sql" /\ outcome \in {"ok", "raised_second"}),
              !.df2 = @ \/ (kind = "load_file2" /\ outcome = "loaded")
                        \/ (kind = "compare_sql" /\ outcome = "ok")]

\* No window holds the grab, so the buttons of the main window answer
NoGrab == input_window.toplevels = {} /\ ~input_window.config_window

\* show_progress followed by threading.Thread(...).start()
StartThread(kind) ==
    /\ Len(ops) < MaxOps
    /\ ops' = Append(ops, [kind |-> kind, state |-> "running", todo |-> <<>>,
                           scheduled |-> <<>>, ran |-> <<>>,
                           window |-> input_window.created + 1])

\* DataInputWindow.load_file1 / load_file2 with a file chosen in the dialog
LoadFile(n) ==
    /\ NoGrab
    /\ StartThread(IF n = 1 THEN "load_file1" ELSE "load_file2")
    /\ input_window' = ShowProgress(input_window)
    /\ UNCHANGED <<after_queue, not_progress_vars>>

\* DataInputWindow.compare_sql with two queries entered
CompareSql ==
    /\ NoGrab
    /\ StartThread("compare_sql")
    /\ input_window' = ShowProgress(input_window)
    /\ UNCHANGED <<after_queue, not_progress_vars>>

\* DataInputWindow.prepare_csv_comparison with both data sets loaded and a
\* common column: the configuration window opens and takes the grab
PrepareCsvComparison(w) ==
    IF w.df1 /\ w.df2 THEN [w EXCEPT !.config_window = TRUE] ELSE w

\* The Compare Datasets button of the main window
ClickCompareDatasets ==
    /\ NoGrab
    /\ input_window.df1 /\ input_window.df2
    /\ input_window' = PrepareCsvComparison(input_window)
    /\ UNCHANGED <<ops, after_queue, not_progress_vars>>

\* The Cancel button of the configuration window
CancelConfiguration ==
    /\ input_window.config_window
    /\ input_window' = [input_window EXCEPT !.config_window = FALSE]
    /\ UNCHANGED <<ops, after_queue, not_progress_vars>>

\* DataInputWindow.run_csv_comparison with a join column and a compare
\* column ticked: the configuration window is destroyed, the progress window
\* shown, the thread started
StartCsvComparison ==
    /\ input_window.config_window
    /\ StartThread("run_csv_comparison")
    /\ input_window' = ShowProgress([input_window EXCEPT !.config_window = FALSE])
    /\ UNCHANGED <<after_queue, not_progress_vars>>

\* The body of the thread of operation k up to its first parent.after call
ThreadBody(k) ==
    /\ k \in DOMAIN ops
    /\ ops[k].state = "running"
    /\ \E outcome \in ThreadOutcomes(ops[k].kind) :
          /\ ops' = [ops EXCEPT ![k].state = "scheduling",
                                ![k].todo = ThreadCallbacks(ops[k].kind, outcome)]
          /\ input_window' = ThreadAssigns(input_window, ops[k].kind, outcome)
    /\ UNCHANGED <<after_queue, not_progress_vars>>

\* The next parent.after(0, callback) call of the thread of operation k; the
\* thread ends after the one of its finally clause
ThreadSchedule(k) ==
    /\ k \in DOMAIN ops
    /\ ops[k].state = "scheduling"
    /\ after_queue' = Append(after_queue, [callback |-> Head(ops[k].todo), op |-> k])
    /\ ops' = [ops EXCEPT ![k].todo = Tail(@),
                          ![k].scheduled = Append(@, Head(ops[k].todo)),
                          ![k].state = IF Tail(ops[k].todo) = <<>> THEN "returned" ELSE @]
    /\ UNCHANGED <<input_window, not_progress_vars>>

\* The Tk main loop runs the oldest callback passed to parent.after
RunCallback ==
    /\ after_queue # <<>>
    /\ after_queue' = Tail(after_queue)
    /\ ops' = [ops EXCEPT ![Head(after_queue).op].ran = Append(@, Head(after_queue).callback)]
    /\ input_window' =
          IF Head(after_queue).callback = "hide_progress" THEN HideProgress(input_window)
          ELSE IF Head(after_queue).callback = "prepare_csv_comparison"
               THEN PrepareCsvComparison(input_window)
          ELSE input_window
    /\ UNCHANGED not_progress_vars----------------------------------------------------------------------------
(* utils/duckdb_handler.py: the dataset tables and the session files *)

\* The variables the handler's dataset tables and session files leave alone
not_session_vars == <<core_vars, qt_vars, page_vars, progress_vars>>

\* The frames handed to the store. Every cell is written as its text; the
\* dtype of its column says whether it is a number (int64) or a Python
\* object (str, bytes). "\\xff" stands for a bytes value that is not UTF-8.
StoredFrames ==
    {[columns |-> <<"id">>, dtypes |-> [id |-> "int64"], rows |-> <<[id |-> "2"]>>],
     [columns |-> <<"id", "zip">>, dtypes |-> [id |-> "int64", zip |-> "object"],
      rows |-> <<[id |-> "1", zip |-> "a1"]>>],
     [columns |-> <<"id", "zip">>, dtypes |-> [id |-> "int64", zip |-> "object"],
      rows |-> <<[id |-> "1", zip |-> "01"]>>],
     [columns |-> <<"id", "zip">>, dtypes |-> [id |-> "int64", zip |-> "object"],
      rows |-> <<[id |-> "1", zip |-> "\\xff"]>>]}

\* The texts float() accepts, and str(int(float(text)))
NumericText == {"1", "2", "01"}
IntText(text) == IF text = "01" THEN "1" ELSE text

\* df.to_json(orient='split') raises on a cell it cannot encode
ToJsonRaises(df) ==
    \E i \in DOMAIN df.rows, col \in Range(df.columns) : df.rows[i][col] = "\\xff"

\* df.to_json(orient='split'): the columns and, row by row, a JSON number for
\* a cell of a numeric column and a JSON string for a str cell
ToJson(df) ==
    [columns |-> df.columns,
     data |-> [i \in DOMAIN df.rows |->
                 [col \in Range(df.columns) |->
                     [string |-> df.dtypes[col] = "object", text |-> df.rows[i][col]]]]]

\* The column `col` of a parsed document holds only numbers, or only JSON
\* strings that astype('float64') accepts
CoercedToNumber(doc, col) ==
    /\ doc.data # <<>>
    /\ \A i \in DOMAIN doc.data :
          ~doc.data[i][col].string \/ doc.data[i][col].text \in NumericText

\* pd.read_json(text, orient='split') with its default dtype=True: a column
\* whose values all convert to float64 becomes numeric, and int64 when the
\* values are whole
ReadJson(doc) ==
    [columns |-> doc.columns,
     dtypes |-> [col \in Range(doc.columns) |->
                    IF CoercedToNumber(doc, col) THEN "int64" ELSE "object"],
     rows |-> [i \in DOMAIN doc.data |->
                 [col \in Range(doc.columns) |->
                     IF CoercedToNumber(doc, col) THEN IntText(doc.data[i][col].text)
                     ELSE doc.data[i][col].text]]]

\* The file of the handler's own session and the file of another session
CurrentFile == "session_a.duckdb"
OtherFile == "session_b.duckdb"

\* What a call of the handler returned; df is NoResults for None
Returned(op, ok, df) == [op |-> op, ok |-> ok, df |-> df]

\* DuckDBHandler.__init__ and _initialize_schema: the empty tables and the
\* sequence. `given` remembers the frame of the last store call of each
\* table that returned True.
NewHandler ==
    [base_dataset |-> <<>>, compare_dataset |-> <<>>, dataset_seq |-> 1,
     given |-> [base_dataset |-> NoResults, compare_dataset |-> NoResults],
     last |-> Returned("__init__", TRUE, NoResults), cleanups |-> 0]

\* A working directory that holds no other session's file
SessionIdle ==
    /\ handler = NewHandler
    /\ session_dir = [f \in {CurrentFile} |-> 0]

\* A write of the connection sets the modification time of the session's
\* file, if the directory still has it
Touch(dir) == [f \in DOMAIN dir |-> IF f = CurrentFile THEN 0 ELSE dir[f]]

\* store_base_dataset (table = "base_dataset") and store_compare_dataset
\* (table = "compare_dataset"): DELETE, then to_json, then INSERT with the
\* next value of dataset_seq; the except clause returns False.
StoreDataset(table, df) ==
    /\ handler.dataset_seq <= MaxStores
    /\ IF ToJsonRaises(df)
       THEN handler' = [handler EXCEPT ![table] = <<>>,
                                       !.last = Returned("store_" \o table, FALSE, NoResults)]
       ELSE handler' = [handler EXCEPT ![table] = <<[id |-> handler.dataset_seq,
                                                     data |-> ToJson(df)]>>,
                                       !.dataset_seq = @ + 1,
                                       !.given[table] = df,
                                       !.last = Returned("store_" \o table, TRUE, NoResults)]
    /\ session_dir' = Touch(session_dir)
    /\ UNCHANGED not_session_vars

\* The row SELECT data ... ORDER BY id DESC LIMIT 1 fetches: the one with the
\* largest id
LastRow(rows) == CHOOSE r \in Range(rows) : \A q \in Range(rows) : q.id <= r.id

\* get_base_dataset / get_compare_dataset
GetDataset(table) ==
    /\ handler.last.op # "get_" \o table
    /\ handler' = [handler EXCEPT !.last =
                      Returned("get_" \o table, TRUE,
                               IF handler[table] = <<>> THEN NoResults
                               ELSE ReadJson(LastRow(handler[table]).data))]
    /\ UNCHANGED <<session_dir, not_session_vars>>

\* Twelve hours pass without a write
Tick ==
    /\ \A f \in DOMAIN session_dir : session_dir[f] + 12 <= MaxAgeHours
    /\ DOMAIN session_dir # {}
    /\ session_dir' = [f \in DOMAIN session_dir |-> session_dir[f] + 12]
    /\ UNCHANGED <<handler, not_session_vars>>

\* The files os.remove takes away out of `doomed`: removing the file of the
\* open connection succeeds where the system unlinks open files and raises,
\* which the loop ignores, where it locks them.
Remove(dir, doomed, unlinks_open) ==
    [f \in {g \in DOMAIN dir : g \notin doomed \/ (g = CurrentFile /\ ~unlinks_open)} |-> dir[f]]

\* _cleanup_old_sessions(max_age_hours), called by handle_session_cleanup
\* with threshold_hours or 24
CleanupOldSessions(max_age_hours, unlinks_open) ==
    Remove(session_dir, {f \in DOMAIN session_dir : session_dir[f] > max_age_hours},
           unlinks_open)

\* force_cleanup_all_sessions
ForceCleanupAllSessions(unlinks_open) ==
    Remove(session_dir, DOMAIN session_dir, unlinks_open)

\* handle_session_cleanup, by the button that triggered it
HandleSessionCleanup(button_id) ==
    /\ handler.cleanups < MaxCleanups
    /\ handler' = [handler EXCEPT !.cleanups = @ + 1,
                                  !.last = Returned(button_id, TRUE, NoResults)]
    /\ \E unlinks_open \in BOOLEAN :
          IF button_id = "cleanup-old-sessions"
          THEN \E threshold_hours \in {0, 12} :
                  session_dir' = CleanupOldSessions(IF threshold_hours # 0 THEN threshold_hours
                                                    ELSE 24, unlinks_open)
          ELSE session_dir' = ForceCleanupAllSessions(unlinks_open)
    /\ UNCHANGED not_session_vars----------------------------------------------------------------------------
(* app.py: the CSV upload dialog and the column selection dialog *)

\* The variables the Dash dialogs leave alone
not_page_vars == <<core_vars, qt_vars, progress_vars, session_vars>>

\* components/layout.py, components/modals.py: the stores are empty, both
\* buttons are disabled, the dialogs are closed
PageIdle ==
    /\ browser = [base_data_store |-> NoResults, compare_data_store |-> NoResults,
                  base_upload_status |-> "", compare_upload_status |-> "",
                  proceed_disabled |-> TRUE, uploads |-> 0,
                  column_selection_modal |-> FALSE, join_options |-> <<>>,
                  join_value |-> <<>>, run_disabled |-> TRUE, called_with |-> <<>>]
    /\ pending = {}

\* The files dropped on an upload area: CSV text of a frame, or bytes that
\* pd.read_csv cannot parse
UploadFiles ==
    {[columns |-> <<"id", "val">>, rows |-> <<>>],
     [columns |-> <<"id", "x">>, rows |-> <<[id |-> <<1>>, x |-> <<0>>]>>],
     [unreadable |-> TRUE]}

ReadableFiles == {f \in UploadFiles : "unreadable" \notin DOMAIN f}

\* The page's name of the other store, the State of an upload callback
OtherStore(side) == IF side = "base" THEN "compare_data_store" ELSE "base_data_store"

\* handle_base_csv_upload(contents, filename, compare_data) and
\* handle_compare_csv_upload(contents, filename, base_data): the returned
\* (status, store data, proceed-to-columns disabled); dash.no_update is NoResults
HandleCsvUpload(contents, other_data) ==
    IF "unreadable" \in DOMAIN contents
    THEN [status |-> "danger", data |-> NoResults, disabled |-> TRUE]
    ELSE [status |-> "success", data |-> contents, disabled |-> ~(other_data # NoResults)]

\* The page requests a callback; a request of the same callback that is
\* still unanswered is dropped, its answer will not be applied.
Request(r) == {q \in pending : q.callback # r.callback} \cup {r}

UploadCallback(side) ==
    IF side = "base" THEN "handle_base_csv_upload" ELSE "handle_compare_csv_upload"

\* A file is dropped on the upload area of `side` in the CSV upload dialog:
\* the page requests the callback with the State it holds now.
DropFile(side) ==
    /\ browser.uploads < MaxUploads
    /\ ~browser.column_selection_modal
    /\ \E contents \in UploadFiles :
          pending' = Request([callback |-> UploadCallback(side), side |-> side,
                              contents |-> contents,
                              other_data |-> browser[OtherStore(side)]])
    /\ browser' = [browser EXCEPT !.uploads = @ + 1]
    /\ UNCHANGED not_page_vars

\* The server runs the upload callback of a request and the page applies
\* the three outputs
AnswerUpload(r) ==
    /\ r \in pending
    /\ r.callback \in {"handle_base_csv_upload", "handle_compare_csv_upload"}
    /\ pending' = pending \ {r}
    /\ \E out \in {HandleCsvUpload(r.contents, r.other_data)} :
          browser' = IF r.side = "base"
                     THEN [browser EXCEPT
                             !.base_upload_status = out.status,
                             !.base_data_store = IF out.data = NoResults THEN @ ELSE out.data,
                             !.proceed_disabled = out.disabled]
                     ELSE [browser EXCEPT
                             !.compare_upload_status = out.status,
                             !.compare_data_store = IF out.data = NoResults THEN @ ELSE out.data,
                             !.proceed_disabled = out.disabled]
    /\ UNCHANGED not_page_vars

\* sorted(...) of column names: the names of the model in alphabetical order
ColumnOrder == <<"X", "id", "val", "x">>

SortedColumns(cols) == SelectSeq(ColumnOrder, LAMBDA c : c \in cols)

\* sorted(list(base_cols.intersection(compare_cols)))
CommonCols(base_data, compare_data) ==
    SortedColumns(Range(base_data.columns) \cap Range(compare_data.columns))

\* populate_join_columns(is_open, base_data, compare_data, current_selection):
\* the returned (options, value, run button disabled). The only Input is the
\* modal's is_open, so the callback context always names it and the first
\* common column is selected.
PopulateJoinColumns(is_open, base_data, compare_data) ==
    IF ~is_open \/ base_data = NoResults \/ compare_data = NoResults
    THEN [options |-> <<>>, value |-> <<>>, disabled |-> TRUE]
    ELSE [options |-> CommonCols(base_data, compare_data),
          value |-> SubSeq(CommonCols(base_data, compare_data), 1,
                           Min(1, Len(CommonCols(base_data, compare_data)))),
          disabled |-> CommonCols(base_data, compare_data) = <<>>]

\* The run button left enabled whatever is selected
UpdateRunButtonStatusEnabled(join_cols) == FALSE

\* update_run_button_status(join_cols)
UpdateRunButtonStatus(join_cols) == ~(join_cols # <<>>)

PopulateRequest(page, is_open) ==
    [callback |-> "populate_join_columns", is_open |-> is_open,
     base_data |-> page.base_data_store, compare_data |-> page.compare_data_store]

\* open_column_selection_modal (Next: Select Columns, when enabled) or
\* open_comparison_modal (Start Comparison): the column selection dialog
\* opens, which requests populate_join_columns.
OpenColumnSelection ==
    /\ ~browser.column_selection_modal
    /\ n_clicks < MaxPageRuns
    /\ browser' = [browser EXCEPT !.column_selection_modal = TRUE]
    /\ pending' = Request(PopulateRequest(browser, TRUE))
    /\ UNCHANGED not_page_vars

\* The page applies the answer of populate_join_columns; the new value of the
\* dropdown requests update_run_button_status.
AnswerPopulate(r) ==
    /\ r \in pending
    /\ r.callback = "populate_join_columns"
    /\ \E out \in {PopulateJoinColumns(r.is_open, r.base_data, r.compare_data)} :
          /\ browser' = [browser EXCEPT !.join_options = out.options, !.join_value = out.value,
                                         !.run_disabled = out.disabled]
          /\ pending' = {q \in pending \ {r} : q.callback # "update_run_button_status"}
                         \cup {[callback |-> "update_run_button_status",
                                 join_cols |-> out.value]}
    /\ UNCHANGED not_page_vars

\* The user changes the selection of the join columns dropdown, which
\* requests update_run_button_status.
SelectJoinColumns ==
    /\ browser.column_selection_modal
    /\ \E cols \in SUBSET Range(browser.join_options) :
          /\ SortedColumns(cols) # browser.join_value
          /\ browser' = [browser EXCEPT !.join_value = SortedColumns(cols)]
          /\ pending' = Request([callback |-> "update_run_button_status",
                                  join_cols |-> SortedColumns(cols)])
    /\ UNCHANGED not_page_vars

\* The page applies the answer of update_run_button_status
AnswerUpdate(r) ==
    /\ r \in pending
    /\ r.callback = "update_run_button_status"
    /\ pending' = pending \ {r}
    /\ browser' = [browser EXCEPT !.run_disabled = UpdateRunButtonStatus(r.join_cols)]
    /\ UNCHANGED not_page_vars

\* A click on the enabled Run Comparison button: toggle_column_selection_modal
\* closes the dialog, which requests populate_join_columns, and
\* run_comparison_from_modal is requested with the State of the page.
ClickRunComparison ==
    /\ browser.column_selection_modal
    /\ ~browser.run_disabled
    /\ browser' = [browser EXCEPT !.column_selection_modal = FALSE]
    /\ pending' = {q \in pending : q.callback \notin {"populate_join_columns",
                                                       "run_comparison_from_modal"}}
                   \cup {PopulateRequest(browser, FALSE),
                         [callback |-> "run_comparison_from_modal",
                          base_data |-> browser.base_data_store,
                          compare_data |-> browser.compare_data_store,
                          join_cols |-> browser.join_value]}
    /\ UNCHANGED not_page_vars

----------------------------------------------------------------------------
(* The front-ends before anything is loaded, and their specifications *)

\* The windows, dialogs and threads around the comparison, as constructed
SideIdle == QtIdle /\ PageIdle /\ ProgressIdle /\ SessionIdle

\* The values of the comparison's variables in a front-end that has not
\* loaded anything yet
CoreIdle ==
    /\ base_df = NoResults
    /\ compare_df = NoResults
    /\ pc = "start"
    /\ results = NoResults
    /\ column_stats = <<>>
    /\ mismatch_rows = <<>>
    /\ compare_result = NoResults
    /\ session_store = [comparison_results |-> <<>>, mismatch_details |-> <<>>]
    /\ alert = NoAlert
    /\ parsed = FALSE
    /\ n_clicks = 0
    /\ tk_request = NoResults
    /\ messagebox = ""
    /\ columns_tree = {}
    /\ worker_results = NoResults

InitIdle == CoreIdle /\ SideIdle

\* The PyQt window: loads, comparisons and the main thread's event loop
NextQt ==
    \/ \E i \in {1, 2} : LoadData(i)
    \/ \E i \in {1, 2} : LoaderRun(i)
    \/ CompareDatasets
    \/ WorkerRun
    \/ Dispatch

SpecQt == InitIdle /\ [][NextQt]_vars

\* The Tkinter window: the buttons, the threads and the main loop
NextProgress ==
    \/ \E n \in {1, 2} : LoadFile(n)
    \/ CompareSql
    \/ ClickCompareDatasets
    \/ CancelConfiguration
    \/ StartCsvComparison
    \/ \E k \in 1..MaxOps : ThreadBody(k)
    \/ \E k \in 1..MaxOps : ThreadSchedule(k)
    \/ RunCallback

SpecProgress == InitIdle /\ [][NextProgress]_vars

\* A started thread runs until its function returns, and root.mainloop()
\* keeps running the callbacks passed to after
SpecProgressFair ==
    /\ SpecProgress
    /\ \A k \in 1..MaxOps : WF_vars(ThreadBody(k)) /\ WF_vars(ThreadSchedule(k))
    /\ WF_vars(RunCallback)\* DuckDBHandler.__init__ in a working directory in which another session
\* left its file: _cleanup_old_sessions() has removed what was older than
\* 24 hours, connect has created the session's own file
InitSession ==
    /\ CoreIdle /\ QtIdle /\ PageIdle /\ ProgressIdle
    /\ handler = NewHandler
    /\ \E age \in {0, 12, 24} :
          session_dir = [f \in {CurrentFile, OtherFile} |-> IF f = CurrentFile THEN 0 ELSE age]

\* The session: datasets stored and fetched, time passing, the cleanup buttons
NextSession ==
    \/ \E df \in StoredFrames : StoreDataset("base_dataset", df)
    \/ \E df \in StoredFrames : StoreDataset("compare_dataset", df)
    \/ GetDataset("base_dataset")
    \/ GetDataset("compare_dataset")
    \/ Tick
    \/ HandleSessionCleanup("cleanup-old-sessions")
    \/ HandleSessionCleanup("force-cleanup-sessions")

SpecSession == InitSession /\ [][NextSession]_vars----------------------------------------------------------------------------
(* The inputs *)

KeyCells == {Null, <<1>>, <<2>>}
ValCells == {Null, <<0>>, <<2>>}
Tolerances == {0, 1, 2}

Schemas == {<<"id", "val">>, <<"id", "val", "x">>}

\* The rows of a schema: key 1 with any value, the other keys with value 0;
\* the optional column x holds 0.
RowsOf(schema) ==
    {[c \in Range(schema) |-> IF c = "id" THEN kv[1] ELSE IF c = "val" THEN kv[2] ELSE <<0>>] :
        kv \in {p \in KeyCells \X ValCells : p[1] = <<1>> \/ p[2] = <<0>>}}

FramesWith(schemas, n) ==
    UNION {{[columns |-> sch, rows |-> rs] : rs \in [1..n -> RowsOf(sch)]} : sch \in schemas}

FramesOf(n) == FramesWith(Schemas, n)

\* The files the desktop tools load: column names may be upper case, and one
\* file has two columns that differ in case only.
DesktopSchemas == {<<"id", "val">>, <<"id", "val", "X">>, <<"id", "val", "X", "x">>}

JoinChoices == {<<>>, <<"id">>, <<"id", "val">>, <<"x">>}
CompareChoices == {<<>>, <<"val">>, <<"x">>}

\* The Tkinter configuration window's ticked join columns (boxes of the
\* common columns) and ticked columns to compare
TkJoinChoices == {<<>>, <<"id">>}
TkCompareChoices == {<<>>, <<"val">>}

\* The PyQt window's ticked comparison methods
MethodChoices == {<<"schema">>, <<"row_count">>, <<"schema", "row_count">>}

Init ==
    /\ \E n \in 0..MaxRows, m \in 0..MaxRows :
          /\ n + m <= MaxRows
          /\ base_df \in FramesOf(n)
          /\ compare_df \in FramesOf(m)
    /\ pc = "loaded"
    /\ results = NoResults
    /\ column_stats = <<>>
    /\ mismatch_rows = <<>>
    /\ compare_result = NoResults
    /\ session_store = EmptyStore
    /\ alert = NoAlert
    /\ parsed = FALSE
    /\ n_clicks = 0
    /\ tk_request = NoResults
    /\ messagebox = ""
    /\ columns_tree = {}
    /\ worker_results = NoResults
    /\ SideIdle

\* The empty join selection answered by a raised configuration error
JoinWarningRaised ==
    [color |-> "danger", text |-> "Please select at least one join column",
     raised |-> "ConfigurationError"]

\* dbc.Alert("Please select at least one join column", color="warning"):
\* returned, no exception raised
JoinWarning ==
    [color |-> "warning", text |-> "Please select at least one join column", raised |-> ""]

\* except Exception as e: dbc.Alert(f"Comparison Error: {str(e)}", color="danger")
ErrorAlert(res) ==
    [color |-> "danger", text |-> "Comparison Error: " \o res.error, raised |-> res.type]

\* The handler's steps after run_comparison returned `res`: the session store
\* write, then create_comparison_section(results).
ShowResults(res, stored, all_mismatches_df) ==
    /\ results' = StoredResults(res, stored)
    /\ session_store' = stored.store
    /\ column_stats' = ColumnStats(res.comparison_obj, all_mismatches_df)
    /\ mismatch_rows' = MismatchRows(all_mismatches_df)
    /\ alert' = NoAlert
    /\ pc' = "dash_done"

\* The alert shown and the failure recorded as a row of comparison_results
ShowAlertStored(shown, state) ==
    /\ alert' = shown
    /\ column_stats' = <<>>
    /\ mismatch_rows' = <<>>
    /\ pc' = state
    /\ session_store' = [session_store EXCEPT !.comparison_results =
                            Append(@, [id |-> Len(@) + 1, error |-> shown.text])]
    /\ UNCHANGED results

\* The handler returns an alert as the children of comparison-results: the
\* section shown before is replaced; nothing is stored.
ShowAlert(shown, state) ==
    /\ alert' = shown
    /\ column_stats' = <<>>
    /\ mismatch_rows' = <<>>
    /\ pc' = state
    /\ UNCHANGED <<results, session_store>>

\* app.run_comparison_from_modal: the data sets are parsed from the browser's
\* stores (which keep them), then DataHandler.run_comparison(base_df,
\* compare_df, join_cols, compare_cols), the session store write and
\* create_comparison_section(results); an exception becomes an error alert.
RunComparisonFromModal ==
    /\ pc = "loaded"
    /\ n_clicks < MaxClicks
    /\ n_clicks' = n_clicks + 1
    /\ parsed' = TRUE
    /\ \E join_cols \in JoinChoices, compare_cols \in CompareChoices :
          IF join_cols = <<>>
          THEN ShowAlert(JoinWarning, "dash_warning")
          ELSE \E res \in {RunComparisonResults(base_df, compare_df, join_cols, compare_cols)} :
                  IF res.error = ""
                  THEN ShowResults(res, StoreOf(session_store, res),
                                   AllMismatch(res.comparison_obj))
                  ELSE ShowAlert(ErrorAlert(res), "dash_error")
    /\ UNCHANGED <<base_df, compare_df, tk_vars, worker_results>>
    /\ UNCHANGED side_vars

\* app.open_comparison_modal: Start Comparison opens the column selection
\* modal again; what is shown and stored stays.
OpenComparisonModal ==
    /\ pc \in {"dash_done", "dash_warning", "dash_error"}
    /\ pc' = "loaded"
    /\ UNCHANGED <<base_df, compare_df, dash_vars, tk_vars, worker_results>>
    /\ UNCHANGED side_vars

\* DataInputWindow.run_csv_comparison: an error dialog when no join column or
\* no column to compare is ticked (the configuration window stays as it is);
\* otherwise the options are saved and the thread is started with the two lists.
RunCsvComparison ==
    /\ pc = "loaded"
    /\ \E join_cols \in TkJoinChoices, compare_cols \in TkCompareChoices,
          tolerance \in Tolerances, case_sensitive \in BOOLEAN :
          IF join_cols = <<>>
          THEN /\ messagebox' = "Please select at least one join column"
               /\ pc' = "tk_dialog"
               /\ UNCHANGED tk_request
          ELSE IF compare_cols = <<>>
               THEN /\ messagebox' = "Please select at least one column to compare"
                    /\ pc' = "tk_dialog"
                    /\ UNCHANGED tk_request
               ELSE /\ tk_request' = [join_cols |-> join_cols, compare_cols |-> compare_cols,
                                      tolerance |-> tolerance, case_sensitive |-> case_sensitive]
                    /\ pc' = "tk_running"
                    /\ UNCHANGED messagebox
    /\ UNCHANGED <<base_df, compare_df, compare_result, columns_tree, dash_vars, worker_results>>
    /\ UNCHANGED side_vars

\* DataInputWindow.run_comparison_in_thread(join_cols, compare_cols): self.df1
\* and self.df2 are handed to datacompy.Compare as they are, so they are the
\* frames the call leaves behind; an exception becomes an error dialog.
RunComparisonInThread ==
    /\ pc = "tk_running"
    /\ \E cmp \in {ThreadCompare(base_df, compare_df, tk_request.join_cols,
                                  tk_request.tolerance, tk_request.case_sensitive)} :
          /\ base_df' = cmp.df1
          /\ compare_df' = cmp.df2
          /\ IF cmp.error = ""
             THEN /\ compare_result' = cmp
                  /\ pc' = "tk_done"
                  /\ UNCHANGED messagebox
             ELSE /\ messagebox' = "Comparison failed: " \o cmp.error
                  /\ pc' = "tk_error"
                  /\ UNCHANGED compare_result
    /\ UNCHANGED <<tk_request, columns_tree, dash_vars, worker_results>>
    /\ UNCHANGED side_vars

\* DataInputWindow.show_comparison_results: ComparisonResults(window,
\* compare_result, self.df1, self.df2, join_cols, compare_cols) fills its tabs;
\* the model keeps the Columns tab.
ShowComparisonResults ==
    /\ pc = "tk_done"
    /\ columns_tree' = ColumnsTree(base_df, compare_df)
    /\ pc' = "tk_shown"
    /\ UNCHANGED <<base_df, compare_df, compare_result, tk_request, messagebox, dash_vars,
                   worker_results>>
    /\ UNCHANGED side_vars

\* ComparisonWorker.run on the methods ticked in compare_datasets
ComparisonWorkerRun ==
    /\ pc = "loaded"
    /\ \E comparison_methods \in MethodChoices :
          worker_results' = WorkerResults(base_df, compare_df, comparison_methods)
    /\ pc' = "qt_done"
    /\ UNCHANGED <<base_df, compare_df, dash_vars, tk_vars>>
    /\ UNCHANGED side_vars

Next ==
    \/ RunComparisonFromModal
    \/ RunCsvComparison
    \/ RunComparisonInThread
    \/ ShowComparisonResults
    \/ ComparisonWorkerRun

Spec == Init /\ [][Next]_vars

----------------------------------------------------------------------------
(* A Dash session in which the modal is reopened and Run clicked again, on
   data sets of at most one row, or a base data set of two rows with one key *)

SmallFrames == FramesOf(0) \cup FramesOf(1)

DuplicateKeyFrames == {df \in FramesOf(2) : df.rows[1]["id"] = df.rows[2]["id"]}

InitRerun ==
    /\ base_df \in SmallFrames \cup DuplicateKeyFrames
    /\ compare_df \in SmallFrames
    /\ pc = "loaded"
    /\ results = NoResults
    /\ column_stats = <<>>
    /\ mismatch_rows = <<>>
    /\ compare_result = NoResults
    /\ session_store = EmptyStore
    /\ alert = NoAlert
    /\ parsed = FALSE
    /\ n_clicks = 0
    /\ tk_request = NoResults
    /\ messagebox = ""
    /\ columns_tree = {}
    /\ worker_results = NoResults
    /\ SideIdle

NextRerun == RunComparisonFromModal \/ OpenComparisonModal

SpecRerun == InitRerun /\ [][NextRerun]_vars

----------------------------------------------------------------------------
(* A Dash session with one click on Run *)

NextDash == RunComparisonFromModal

SpecDash == Init /\ [][NextDash]_vars

----------------------------------------------------------------------------
(* A Dash session whose two stores hold the same data set of at most MaxRows
   rows *)

InitSelf ==
    /\ \E n \in 0..MaxRows : base_df \in FramesOf(n)
    /\ compare_df = base_df
    /\ pc = "loaded"
    /\ results = NoResults
    /\ column_stats = <<>>
    /\ mismatch_rows = <<>>
    /\ compare_result = NoResults
    /\ session_store = EmptyStore
    /\ alert = NoAlert
    /\ parsed = FALSE
    /\ n_clicks = 0
    /\ tk_request = NoResults
    /\ messagebox = ""
    /\ columns_tree = {}
    /\ worker_results = NoResults
    /\ SideIdle

NextSelf == RunComparisonFromModal

SpecSelf == InitSelf /\ [][NextSelf]_vars

----------------------------------------------------------------------------
(* The desktop tools: the Tkinter tool's configuration window, thread and
   results window, and the PyQt tool's worker, on files of at most
   MaxDesktopRows rows together *)

InitDesktop ==
    /\ \E n \in 0..MaxDesktopRows, m \in 0..MaxDesktopRows :
          /\ n + m <= MaxDesktopRows
          /\ base_df \in FramesWith(DesktopSchemas, n)
          /\ compare_df \in FramesWith(DesktopSchemas, m)
    /\ pc = "loaded"
    /\ results = NoResults
    /\ column_stats = <<>>
    /\ mismatch_rows = <<>>
    /\ compare_result = NoResults
    /\ session_store = EmptyStore
    /\ alert = NoAlert
    /\ parsed = FALSE
    /\ n_clicks = 0
    /\ tk_request = NoResults
    /\ messagebox = ""
    /\ columns_tree = {}
    /\ worker_results = NoResults
    /\ SideIdle

NextDesktop ==
    RunCsvComparison \/ RunComparisonInThread \/ ShowComparisonResults \/ ComparisonWorkerRun

SpecDesktop == InitDesktop /\ [][NextDesktop]_vars

----------------------------------------------------------------------------
(* The Dash page: the CSV upload dialog, the column selection dialog and the
   comparison requested from it *)

\* run_comparison_from_modal answered for a request of the page, with no
\* column to compare ticked: nothing without both stores, the warning without
\* a join column, else DataHandler.run_comparison, the session store write
\* and the rendered section, or the error alert.
AnswerRunComparison(r) ==
    /\ r \in pending
    /\ r.callback = "run_comparison_from_modal"
    /\ pending' = pending \ {r}
    /\ IF r.base_data = NoResults \/ r.compare_data = NoResults
       THEN UNCHANGED <<browser, results, column_stats, mismatch_rows, session_store, alert,
                        pc, parsed, n_clicks>>
       ELSE /\ n_clicks' = n_clicks + 1
            /\ parsed' = TRUE
            /\ IF r.join_cols = <<>>
               THEN /\ ShowAlert(JoinWarning, "dash_warning")
                    /\ UNCHANGED browser
               ELSE /\ browser' = [browser EXCEPT !.called_with = Append(@, r.join_cols)]
                    /\ \E res \in {RunComparisonResults(r.base_data, r.compare_data,
                                                         r.join_cols, <<>>)} :
                          IF res.error = ""
                          THEN ShowResults(res, StoreOf(session_store, res),
                                           AllMismatch(res.comparison_obj))
                          ELSE ShowAlert(ErrorAlert(res), "dash_error")
    /\ UNCHANGED <<base_df, compare_df, tk_vars, worker_results, qt_vars, progress_vars,
                    session_vars>>

\* The CSV upload dialog
NextUpload ==
    \/ \E side \in {"base", "compare"} : DropFile(side)
    \/ \E r \in pending : AnswerUpload(r)

SpecUpload == InitIdle /\ [][NextUpload]_vars

\* The page when Next: Select Columns is clicked: both stores hold an
\* uploaded data set, the button is enabled, and the upload callback of a
\* file dropped just before the click may still be unanswered.
InitColumns ==
    /\ CoreIdle
    /\ QtIdle
    /\ ProgressIdle
    /\ SessionIdle
    /\ \E base_data \in ReadableFiles, compare_data \in ReadableFiles :
          browser = [base_data_store |-> base_data, compare_data_store |-> compare_data,
                     base_upload_status |-> "success", compare_upload_status |-> "success",
                     proceed_disabled |-> FALSE, uploads |-> 2,
                     column_selection_modal |-> FALSE, join_options |-> <<>>,
                     join_value |-> <<>>, run_disabled |-> TRUE, called_with |-> <<>>]
    /\ \/ pending = {}
       \/ \E side \in {"base", "compare"}, contents \in UploadFiles :
             pending = {[callback |-> UploadCallback(side), side |-> side,
                         contents |-> contents, other_data |-> browser[OtherStore(side)]]}

\* The column selection dialog and the comparison requested from it
NextColumns ==
    \/ OpenColumnSelection
    \/ \E r \in pending : AnswerPopulate(r)
    \/ SelectJoinColumns
    \/ \E r \in pending : AnswerUpdate(r)
    \/ ClickRunComparison
    \/ \E r \in pending : AnswerRunComparison(r)
    \/ \E r \in pending : AnswerUpload(r)

SpecColumns == InitColumns /\ [][NextColumns]_vars

\* The data sets of a page on which a comparison is shown and its tables are
\* expanded
ExpansionFiles ==
    ReadableFiles \cup
    {[columns |-> <<"id", "x">>, rows |-> <<[id |-> <<1>>, x |-> <<1>>]>>],
     [columns |-> <<"id", "x">>, rows |-> <<[id |-> <<1>>, x |-> <<0>>],
                                            [id |-> <<2>>, x |-> <<0>>]>>]}

\* The section create_comparison_section rendered is on the page
SectionShown == pc \in {"dash_done", "dash_expanded"} /\ alert = NoAlert

\* The expand buttons of the rendered section that are not disabled: each
\* table renders its button disabled when its frame is empty
ExpandEnabled(button_id) ==
    IF button_id = "expand-mismatch-btn" THEN AllMismatch(results.comparison_obj).rows # <<>>
    ELSE IF button_id = "expand-base-btn" THEN results.comparison_obj.df1_unq_rows # <<>>
    ELSE results.comparison_obj.df2_unq_rows # <<>>

ExpandButtons == {"expand-mismatch-btn", "expand-base-btn", "expand-compare-btn"}

\* A click on an expand button of the rendered section: the page requests
\* handle_table_expansion with the State it holds now.
ClickExpand(button_id) ==
    /\ SectionShown
    /\ ~browser.column_selection_modal
    /\ ExpandEnabled(button_id)
    /\ pending' = Request([callback |-> "handle_table_expansion", button_id |-> button_id,
                           base_data |-> browser.base_data_store,
                           compare_data |-> browser.compare_data_store,
                           join_cols |-> browser.join_value])
    /\ UNCHANGED <<browser, not_page_vars>>

\* handle_table_expansion answered: dash.no_update without both stores and a
\* join column; else datacompy.Compare is run again and
\* create_comparison_section renders the results built from it; an exception
\* returns the section as it was.
AnswerExpansion(r) ==
    /\ r \in pending
    /\ r.callback = "handle_table_expansion"
    /\ pending' = pending \ {r}
    /\ IF r.base_data = NoResults \/ r.compare_data = NoResults \/ r.join_cols = <<>>
       THEN UNCHANGED <<results, column_stats, mismatch_rows, pc>>
       ELSE \E comparison \in {Compare(r.base_data, r.compare_data, r.join_cols, 0, 0, TRUE)} :
               IF comparison.error # ""
               THEN UNCHANGED <<results, column_stats, mismatch_rows, pc>>
               ELSE /\ results' = ExpansionResults(comparison, r.button_id)
                    /\ column_stats' = ColumnStats(comparison, AllMismatchExpansion(comparison))
                    /\ mismatch_rows' = MismatchRows(AllMismatchExpansion(comparison))
                    /\ pc' = "dash_expanded"
    /\ UNCHANGED <<browser, base_df, compare_df, session_store, alert, parsed, n_clicks,
                    tk_vars, worker_results, qt_vars, progress_vars, session_vars>>

\* The page when Next: Select Columns is clicked, with both data sets uploaded
InitExpansion ==
    /\ CoreIdle
    /\ QtIdle
    /\ ProgressIdle
    /\ SessionIdle
    /\ \E base_data \in ExpansionFiles, compare_data \in ExpansionFiles :
          browser = [base_data_store |-> base_data, compare_data_store |-> compare_data,
                     base_upload_status |-> "success", compare_upload_status |-> "success",
                     proceed_disabled |-> FALSE, uploads |-> 2,
                     column_selection_modal |-> FALSE, join_options |-> <<>>,
                     join_value |-> <<>>, run_disabled |-> TRUE, called_with |-> <<>>]
    /\ pending = {}

\* The column selection dialog, the comparison and the expand buttons of the
\* section it renders
NextExpansion ==
    \/ OpenColumnSelection
    \/ \E r \in pending : AnswerPopulate(r)
    \/ SelectJoinColumns
    \/ \E r \in pending : AnswerUpdate(r)
    \/ ClickRunComparison
    \/ \E r \in pending : AnswerRunComparison(r)
    \/ \E button_id \in ExpandButtons : ClickExpand(button_id)
    \/ \E r \in pending : AnswerExpansion(r)

SpecExpansion == InitExpansion /\ [][NextExpansion]_vars----------------------------------------------------------------------------
(* Properties: the row join *)

\* The Compare object of the finished Dash comparison
Comparison == results.comparison_obj

\* The positions of the rows of `df` whose join key is `key`, and the rank of
\* a row within such a group (original row order)
GroupOf(df, join, key) == {i \in DOMAIN df.rows : KeyOf(df.rows[i], join) = key}
RankIn(group, i) == Cardinality({k \in group : k < i})
HasNullKey(df, join, i) == \E k \in DOMAIN join : IsNull(df.rows[i][join[k]])
NullKeyRows(df, join) == {i \in DOMAIN df.rows : HasNullKey(df, join, i)}

\* The pairs (row of df1, row of df2) the comparison matched, and the rows it
\* left on one side only
MatchedPairs(cmp) == {<<m.l, m.r>> : m \in Range(cmp.intersect_rows)}
OnlyInA(cmp) == {m.l : m \in Range(cmp.df1_unq_rows)}
OnlyInB(cmp) == {m.r : m \in Range(cmp.df2_unq_rows)}

\* C1: the reported match rate is matched rows / max(rows of base, rows of
\* compare), is 0 when both data sets are empty, and lies in [0, 1].
C1_MatchRate ==
    pc = "dash_done" =>
        /\ results.match_rate =
              IF Max(results.total_rows_base, results.total_rows_compare) = 0
              THEN Ratio(0, 1)
              ELSE Ratio(results.intersect_rows,
                         Max(results.total_rows_base, results.total_rows_compare))
        /\ results.intersect_rows = Cardinality(MatchedPairs(Comparison))
        /\ (results.total_rows_base = 0 /\ results.total_rows_compare = 0
               => results.match_rate.num = 0)
        /\ results.match_rate.den > 0
        /\ 0 <= results.match_rate.num
        /\ results.match_rate.num <= results.match_rate.den

C1_Witness ==
    /\ pc = "dash_done"
    /\ results.total_rows_base = 2
    /\ results.total_rows_compare = 1
    /\ results.match_rate = Ratio(1, 2)

\* C2 as stated: base-only rows + matched rows is the number of base rows
\* minus the base rows with a null key component, and likewise for compare.
C2_PartitionMinusNullKeys ==
    pc = "dash_done" =>
        /\ results.base_only_rows + results.intersect_rows =
              results.total_rows_base
                  - Cardinality(NullKeyRows(Comparison.df1, results.join_columns))
        /\ results.compare_only_rows + results.intersect_rows =
              results.total_rows_compare
                  - Cardinality(NullKeyRows(Comparison.df2, results.join_columns))

\* C2 (amended): base-only rows + matched rows is the number of base rows, and
\* compare-only rows + matched rows is the number of compare rows; rows with a
\* null key component are counted like any other row.
C2_Partition ==
    pc = "dash_done" =>
        /\ results.base_only_rows + results.intersect_rows = results.total_rows_base
        /\ results.compare_only_rows + results.intersect_rows = results.total_rows_compare
        /\ results.total_rows_base = Len(base_df.rows)
        /\ results.total_rows_compare = Len(compare_df.rows)

C2_Witness ==
    /\ pc = "dash_done"
    /\ NullKeyRows(Comparison.df1, results.join_columns) # {}
    /\ results.total_rows_base = 2
    /\ results.base_only_rows = 1
    /\ results.intersect_rows = 1

\* The keys that occur in both data sets, more than once in one of them
DuplicatedKeys(cmp) ==
    {key \in {KeyOf(cmp.df1.rows[i], cmp.join_columns) : i \in DOMAIN cmp.df1.rows} :
        /\ GroupOf(cmp.df2, cmp.join_columns, key) # {}
        /\ \/ Cardinality(GroupOf(cmp.df1, cmp.join_columns, key)) > 1
           \/ Cardinality(GroupOf(cmp.df2, cmp.join_columns, key)) > 1}

\* The rows of a duplicated key are paired by rank, the overflow is one-sided.
PairedByPosition(cmp, ga, gb) ==
    /\ {p \in MatchedPairs(cmp) : p[1] \in ga \/ p[2] \in gb} =
          {p \in ga \X gb : RankIn(ga, p[1]) = RankIn(gb, p[2])}
    /\ Cardinality({p \in MatchedPairs(cmp) : p[1] \in ga}) =
          Min(Cardinality(ga), Cardinality(gb))
    /\ OnlyInA(cmp) \cap ga = {i \in ga : RankIn(ga, i) >= Cardinality(gb)}
    /\ OnlyInB(cmp) \cap gb = {j \in gb : RankIn(gb, j) >= Cardinality(ga)}

PairedByPositionAll(cmp) ==
    \A key \in DuplicatedKeys(cmp) :
        PairedByPosition(cmp, GroupOf(cmp.df1, cmp.join_columns, key),
                              GroupOf(cmp.df2, cmp.join_columns, key))

\* C3 as stated: a key with several rows on a side is paired by position,
\* min(|group_a|, |group_b|) pairs, the overflow on one side only, and the key
\* is recorded in duplicate_keys_a / duplicate_keys_b.
C3_PositionalAndRecorded ==
    pc = "dash_done" /\ DuplicatedKeys(Comparison) # {} =>
        /\ PairedByPositionAll(Comparison)
        /\ "duplicate_keys_a" \in DOMAIN results
        /\ "duplicate_keys_b" \in DOMAIN results

\* C3 (amended): a key with several rows on a side is paired by position,
\* min(|group_a|, |group_b|) pairs, the overflow on one side only; the result
\* records no duplicated key, only the report's "Any duplicates" flag.
C3_Positional ==
    pc = "dash_done" /\ DuplicatedKeys(Comparison) # {} =>
        /\ PairedByPositionAll(Comparison)
        /\ results.summary_report.any_duplicates = "Yes"
        /\ "duplicate_keys_a" \notin DOMAIN results
        /\ "duplicate_keys_b" \notin DOMAIN results

C3_Witness ==
    /\ pc = "dash_done"
    /\ \E key \in DuplicatedKeys(Comparison) :
          /\ Cardinality(GroupOf(Comparison.df1, results.join_columns, key)) = 2
          /\ Cardinality(GroupOf(Comparison.df2, results.join_columns, key)) = 1
    /\ results.intersect_rows = 1
    /\ results.base_only_rows = 1

\* C4 as stated: a row with a null key component is never matched; it is in
\* the rows of its own side only.
C4_NullKeysNeverMatched ==
    pc = "dash_done" =>
        /\ \A i \in NullKeyRows(Comparison.df1, results.join_columns) :
              /\ \A p \in MatchedPairs(Comparison) : p[1] # i
              /\ i \in OnlyInA(Comparison)
        /\ \A j \in NullKeyRows(Comparison.df2, results.join_columns) :
              /\ \A p \in MatchedPairs(Comparison) : p[2] # j
              /\ j \in OnlyInB(Comparison)

\* A row is matched iff the other side's group of the same key reaches its rank.
MatchedIffPartner(cmp, df, other, i, matched, only) ==
    IF RankIn(GroupOf(df, cmp.join_columns, KeyOf(df.rows[i], cmp.join_columns)), i)
          < Cardinality(GroupOf(other, cmp.join_columns, KeyOf(df.rows[i], cmp.join_columns)))
    THEN i \in matched /\ i \notin only
    ELSE i \notin matched /\ i \in only

\* C4 (amended): a row with a null key component is matched like any other
\* row, with the row of the other data set that has the same key (nulls equal
\* nulls) at the same rank; it is one-sided only when there is no such row.
C4_NullKeysMatched ==
    pc = "dash_done" =>
        /\ \A i \in NullKeyRows(Comparison.df1, results.join_columns) :
              MatchedIffPartner(Comparison, Comparison.df1, Comparison.df2, i,
                                {p[1] : p \in MatchedPairs(Comparison)}, OnlyInA(Comparison))
        /\ \A j \in NullKeyRows(Comparison.df2, results.join_columns) :
              MatchedIffPartner(Comparison, Comparison.df2, Comparison.df1, j,
                                {p[2] : p \in MatchedPairs(Comparison)}, OnlyInB(Comparison))
        /\ \A p \in MatchedPairs(Comparison) :
              KeyOf(Comparison.df1.rows[p[1]], results.join_columns)
                  = KeyOf(Comparison.df2.rows[p[2]], results.join_columns)

C4_Witness ==
    /\ pc = "dash_done"
    /\ \E p \in MatchedPairs(Comparison) :
          /\ p[1] \in NullKeyRows(Comparison.df1, results.join_columns)
          /\ p[2] \in NullKeyRows(Comparison.df2, results.join_columns)

----------------------------------------------------------------------------
(* Properties: the cell comparison *)

\* Every matched row's flag of a compared column with two numbers is the
\* tolerance test on them.
ToleranceRule(cmp) ==
    \A n \in DOMAIN cmp.intersect_rows :
        \A c \in DOMAIN cmp.intersect_rows[n].match :
            NotNa(cmp.df1.rows[cmp.intersect_rows[n].l][c])
                /\ NotNa(cmp.df2.rows[cmp.intersect_rows[n].r][c])
            => (cmp.intersect_rows[n].match[c] <=>
                   Abs(cmp.df1.rows[cmp.intersect_rows[n].l][c][1]
                          - cmp.df2.rows[cmp.intersect_rows[n].r][c][1])
                   <= cmp.abs_tol
                      + cmp.rel_tol * Max(Abs(cmp.df1.rows[cmp.intersect_rows[n].l][c][1]),
                                          Abs(cmp.df2.rows[cmp.intersect_rows[n].r][c][1])))

\* With both tolerances 0 the flag of two numbers is their equality.
ExactRule(cmp) ==
    cmp.abs_tol = 0 /\ cmp.rel_tol = 0 =>
        \A n \in DOMAIN cmp.intersect_rows :
            \A c \in DOMAIN cmp.intersect_rows[n].match :
                NotNa(cmp.df1.rows[cmp.intersect_rows[n].l][c])
                    /\ NotNa(cmp.df2.rows[cmp.intersect_rows[n].r][c])
                => (cmp.intersect_rows[n].match[c] <=>
                       cmp.df1.rows[cmp.intersect_rows[n].l][c]
                           = cmp.df2.rows[cmp.intersect_rows[n].r][c])

----------------------------------------------------------------------------
(* Properties: the mismatch table and the column statistics *)

\* The positions in mismatch_rows of the records of merged row idx / of column col
RecordsOfRow(idx) == {k \in DOMAIN mismatch_rows : mismatch_rows[k].RowIndex = idx}
RecordsOfColumn(col) == {k \in DOMAIN mismatch_rows : mismatch_rows[k].ColumnName = col}

\* The cells of matched row m under compared column c
BaseCell(cmp, m, c) == cmp.df1.rows[m.l][c]
CompareCell(cmp, m, c) == cmp.df2.rows[m.r][c]

\* C6: in a matched pair, two nulls match; exactly one null is a mismatch,
\* counted in the column's mismatch count and classified as a null mismatch,
\* not as a value mismatch.
C6_NullMismatch ==
    pc = "dash_done" =>
        \A n \in DOMAIN Comparison.intersect_rows :
            \A c \in DOMAIN Comparison.intersect_rows[n].match :
                LET m == Comparison.intersect_rows[n]
                    a == BaseCell(Comparison, m, c)
                    b == CompareCell(Comparison, m, c)
                IN  /\ IsNull(a) /\ IsNull(b) => m.match[c]
                    /\ IsNull(a) # IsNull(b) =>
                          /\ ~m.match[c]
                          /\ \E k \in RecordsOfRow(m.idx) \cap RecordsOfColumn(c) :
                                mismatch_rows[k].MismatchType = "Null Difference"
                          /\ \A k \in RecordsOfRow(m.idx) \cap RecordsOfColumn(c) :
                                mismatch_rows[k].MismatchType # "Value Difference"
                          /\ \E k \in DOMAIN column_stats :
                                /\ column_stats[k].Column = c
                                /\ column_stats[k].MismatchCount >= 1

\* C7: a matched row that differs in k compared columns has exactly k mismatch
\* records, one per differing column, and each column's mismatch count is the
\* number of mismatch records of that column.
C7_OneRecordPerCell ==
    pc = "dash_done" =>
        /\ \A n \in DOMAIN Comparison.intersect_rows :
              LET m == Comparison.intersect_rows[n]
              IN  /\ Cardinality(RecordsOfRow(m.idx)) =
                        Cardinality({c \in DOMAIN m.match : ~m.match[c]})
                  /\ \A c \in DOMAIN m.match :
                        Cardinality(RecordsOfRow(m.idx) \cap RecordsOfColumn(c)) =
                            IF m.match[c] THEN 0 ELSE 1
        /\ \A k \in DOMAIN column_stats :
              column_stats[k].MismatchCount =
                  Cardinality(RecordsOfColumn(column_stats[k].Column))

\* C8: the mismatch count is populated only for the columns of compare_columns;
\* any other common column reports "not compared" (no count, never 0); null
\* counts and dtypes are reported for every common column.
C8_NotComparedIsNotZero ==
    pc = "dash_done" /\ results.compare_columns # <<>>
        /\ Range(results.compare_columns) \subseteq Range(results.columns_compared) =>
        /\ {column_stats[k].Column : k \in DOMAIN column_stats} =
              Range(Comparison.df1.columns) \cap Range(Comparison.df2.columns)
        /\ \A k \in DOMAIN column_stats :
              /\ column_stats[k].BaseNulls = NullCount(Comparison.df1, column_stats[k].Column)
              /\ column_stats[k].CompareNulls = NullCount(Comparison.df2, column_stats[k].Column)
              /\ column_stats[k].Column \notin Range(results.compare_columns)
                    => column_stats[k].MismatchCount \notin Nat

\* C9: with compare_columns empty, the columns compared are the common columns
\* minus the join columns; no join column is compared.
C9_DefaultExcludesJoin ==
    pc = "dash_done" /\ results.compare_columns = <<>> =>
        /\ DOMAIN results.column_diffs \cap Range(results.join_columns) = {}
        /\ Range(results.columns_compared) =
              (Range(Comparison.df1.columns) \cap Range(Comparison.df2.columns))
                  \ Range(results.join_columns)

\* The selected compare columns that only one of the data sets has
AbsentSelected ==
    {c \in Range(results.compare_columns) :
        (c \in Range(Comparison.df1.columns)) # (c \in Range(Comparison.df2.columns))}

\* The error alerts of a comparison whose join columns one data set lacks
JoinColumnAlerts ==
    {"Comparison Error: Comparison failed: " \o index \o " must have all columns from join_columns" :
        index \in {"df1", "df2"}}

\* C10: a column of compare_columns that one data set lacks raises no error
\* (the only error a run ends in is the one about the join columns), has no
\* mismatch record and no column_diffs entry, and is listed in
\* columns_base_only (when base has it) or columns_compare_only.
C10_AbsentColumnSkipped ==
    /\ pc = "dash_error" => alert.text \in JoinColumnAlerts
    /\ pc = "dash_done" =>
          \A c \in AbsentSelected :
              /\ RecordsOfColumn(c) = {}
              /\ c \notin DOMAIN results.column_diffs
              /\ c \notin Range(results.columns_compared)
              /\ c \in Range(Comparison.df1.columns) =>
                    /\ c \in Range(results.columns_base_only)
                    /\ c \notin Range(results.columns_compare_only)
              /\ c \in Range(Comparison.df2.columns) =>
                    /\ c \in Range(results.columns_compare_only)
                    /\ c \notin Range(results.columns_base_only)

C10_Witness ==
    /\ pc = "dash_done"
    /\ results.compare_columns = <<"x">>
    /\ "x" \in Range(Comparison.df1.columns)
    /\ "x" \notin Range(Comparison.df2.columns)
    /\ "x" \in AbsentSelected
    /\ mismatch_rows # <<>>

----------------------------------------------------------------------------
(* Properties: the schema diff *)

\* common, only_a and only_b split the column names of the two frames:
\* pairwise disjoint, together the union, common the intersection.
SchemaPartition(common, only_a, only_b, df1, df2) ==
    /\ common \cup only_a \cup only_b = Range(df1.columns) \cup Range(df2.columns)
    /\ common \cap only_a = {}
    /\ common \cap only_b = {}
    /\ only_a \cap only_b = {}
    /\ common = Range(df1.columns) \cap Range(df2.columns)
    /\ only_a \subseteq Range(df1.columns)
    /\ only_b \subseteq Range(df2.columns)

\* The common columns whose types differ in the two frames
TypesDiffer(df1, df2) ==
    {c \in Range(df1.columns) \cap Range(df2.columns) : Dtype(df1, c) # Dtype(df2, c)}

\* C11: the schema diff of every front-end splits the union of the two data
\* sets' column names into the pairwise disjoint sets common (the
\* intersection), only in A and only in B, and the type mismatches it shows are
\* exactly the common columns whose types differ.
C11_SchemaDiff ==
    /\ pc = "dash_done" =>
          /\ SchemaPartition(Range(results.columns_compared),
                             Range(results.columns_base_only),
                             Range(results.columns_compare_only), base_df, compare_df)
          /\ Len(results.columns_compared) = Cardinality(Range(results.columns_compared))
          /\ DOMAIN results.dtype_mismatches = TypesDiffer(base_df, compare_df)
          /\ \A c \in DOMAIN results.dtype_mismatches :
                /\ results.dtype_mismatches[c].base_dtype = Dtype(base_df, c)
                /\ results.dtype_mismatches[c].compare_dtype = Dtype(compare_df, c)
    /\ pc = "tk_shown" =>
          /\ SchemaPartition({r.Dataset1 : r \in {t \in columns_tree : t.Dataset1 = t.Dataset2}},
                             {r.Dataset1 : r \in {t \in columns_tree : t.Dataset2 = ""}},
                             {r.Dataset2 : r \in {t \in columns_tree : t.Dataset1 = ""}},
                             base_df, compare_df)
          /\ {r.Dataset1 : r \in {t \in columns_tree : t.Match = "No (Type mismatch)"}}
                = TypesDiffer(base_df, compare_df)
    /\ (pc = "qt_done" /\ "schema" \in DOMAIN worker_results) =>
          SchemaPartition(worker_results["schema"].common_columns,
                          worker_results["schema"].unique_to_df1,
                          worker_results["schema"].unique_to_df2, base_df, compare_df)

C11_Witness ==
    /\ pc = "dash_done"
    /\ results.columns_base_only = <<"x">>
    /\ results.columns_compare_only = <<>>
    /\ DOMAIN results.dtype_mismatches = {"val"}
    /\ results.dtype_mismatches["val"] = [base_dtype |-> "float64", compare_dtype |-> "int64"]

----------------------------------------------------------------------------
(* Properties: refused and failed comparisons *)

\* Nothing was produced or stored by the Dash session
NothingProduced ==
    /\ results = NoResults
    /\ session_store = EmptyStore
    /\ column_stats = <<>>
    /\ mismatch_rows = <<>>

\* C12 (as the code has it): an empty join selection is refused with a message
\* and no exception, in the Dash application after the two stored data sets
\* were parsed, in the Tkinter tool before the thread is started; a join column
\* that a data set lacks ends in the generic "Comparison failed" exception; in
\* each case no comparison result is produced or stored, and no result is ever
\* produced for an empty or absent join column.
C12_RefusedWithMessage ==
    /\ pc = "dash_warning" =>
          /\ alert.text = "Please select at least one join column"
          /\ alert.raised = ""
          /\ parsed
          /\ NothingProduced
    /\ pc = "dash_error" =>
          /\ alert.text \in JoinColumnAlerts
          /\ alert.raised = "Exception"
          /\ parsed
          /\ NothingProduced
    /\ pc = "dash_done" =>
          /\ results.join_columns # <<>>
          /\ Range(results.join_columns) \subseteq Range(base_df.columns)
          /\ Range(results.join_columns) \subseteq Range(compare_df.columns)
    /\ pc = "tk_dialog" =>
          /\ messagebox \in {"Please select at least one join column",
                              "Please select at least one column to compare"}
          /\ tk_request = NoResults
          /\ compare_result = NoResults
    /\ pc \in {"tk_running", "tk_done", "tk_shown"} => tk_request.join_cols # <<>>

C12_Witness ==
    /\ pc = "dash_warning"
    /\ alert = JoinWarning
    /\ Len(base_df.rows) = 2
    /\ Len(compare_df.rows) = 1

\* C12 as claimed: an empty join selection, or a join column absent from the
\* common columns, fails with a configuration error raised before either data
\* set is read, and nothing is produced or stored.
C12_ConfigurationErrorFirst ==
    pc \in {"dash_warning", "dash_error"} =>
        /\ alert.raised = "ConfigurationError"
        /\ ~parsed
        /\ NothingProduced

\* The keys of the results dict of DataHandler.run_comparison
ReportKeys ==
    {"comparison_obj", "base_shape", "compare_shape", "base_columns", "join_columns",
     "compare_columns", "intersect_rows", "base_only_rows", "compare_only_rows",
     "total_rows_base", "total_rows_compare", "match_rate", "column_diffs",
     "summary_report", "columns_compared", "columns_base_only", "columns_compare_only",
     "dtype_mismatches"}

\* The error kinds the specification declares
DeclaredKinds == {"ConfigurationError", "SchemaIncompatibleError", "ComparisonError"}

\* C13 (as the code has it): a run of DataHandler.run_comparison ends either
\* with the complete results dict and no error, or with the one generic
\* Exception "Comparison failed: ..." and no results at all; never both, and
\* nothing else escapes.
C13_ReportOrGenericException ==
    /\ pc = "dash_done" =>
          /\ ReportKeys \subseteq DOMAIN results
          /\ results.error = ""
          /\ alert = NoAlert
    /\ pc = "dash_error" =>
          /\ alert.raised = "Exception"
          /\ \E index \in {"df1", "df2"}, cause \in {"all columns from join_columns",
                                                      "unique column names"} :
                alert.text = "Comparison Error: Comparison failed: " \o index
                                \o " must have " \o cause
          /\ results = NoResults

C13_Witness ==
    /\ pc = "dash_error"
    /\ alert.text = "Comparison Error: Comparison failed: df2 must have all columns from join_columns"
    /\ "x" \in Range(base_df.columns)
    /\ compare_df.rows # <<>>

\* C13 as claimed: the error of a failed run is of one of the declared kinds.
C13_DeclaredKindRaised ==
    pc = "dash_error" => alert.raised \in DeclaredKinds /\ results = NoResults

\* C14 (as the code has it): a run that fails or is refused writes nothing to
\* the session store, whose rows stay as they were, and puts its alert in the
\* place of the results section that was displayed.
C14_FailureStoresNothing ==
    [][pc' \in {"dash_error", "dash_warning"} =>
          /\ session_store' = session_store
          /\ alert' # NoAlert
          /\ column_stats' = <<>>
          /\ mismatch_rows' = <<>>]_vars

C14_Witness ==
    /\ pc = "dash_error"
    /\ n_clicks = 2
    /\ Len(session_store.comparison_results) = 1
    /\ session_store.comparison_results[1].common_rows = 1
    /\ results # NoResults
    /\ column_stats = <<>>

\* C14 as claimed: a failed run leaves the store and the displayed results
\* section as they were.
C14_FailureLeavesDisplay ==
    [][pc' = "dash_error" =>
          /\ session_store' = session_store
          /\ column_stats' = column_stats
          /\ mismatch_rows' = mismatch_rows]_vars

----------------------------------------------------------------------------
(* Properties: the caller's data sets *)

\* C15: running a comparison never changes either data set of the caller:
\* after every step base_df and compare_df have the columns (names and
\* order), rows and values they had before it.
C15_DatasetsUnchanged ==
    [][base_df' = base_df /\ compare_df' = compare_df]_vars

----------------------------------------------------------------------------
(* Properties: relations between runs *)

\* C16: a data set without duplicate keys compared with itself, on all common
\* columns or on any selection of them, has an empty mismatch list, no row
\* only in one side, and as many matched rows as it has rows.
C16_SelfComparison ==
    (/\ pc = "dash_done"
     /\ compare_df = base_df
     /\ ~HasDupes(base_df, results.join_columns)) =>
        /\ mismatch_rows = <<>>
        /\ DOMAIN results.column_diffs = {}
        /\ \A k \in DOMAIN column_stats : column_stats[k].MismatchCount = 0
        /\ results.base_only_rows = 0
        /\ results.compare_only_rows = 0
        /\ results.intersect_rows = results.total_rows_base
        /\ results.intersect_rows = Len(base_df.rows)

C16_Witness ==
    /\ pc = "dash_done"
    /\ compare_df = base_df
    /\ results.join_columns = <<"id">>
    /\ results.compare_columns = <<>>
    /\ ~HasDupes(base_df, <<"id">>)
    /\ Len(base_df.rows) = 3
    /\ \E i \in DOMAIN base_df.rows : IsNull(base_df.rows[i]["id"])
    /\ \E i \in DOMAIN base_df.rows : IsNull(base_df.rows[i]["val"])
    /\ results.intersect_rows = 3

\* A frame of the report without the model's bookkeeping of row positions
ViewFrame(frame) ==
    [columns |-> frame.columns,
     floats |-> frame.floats,
     rows |-> [n \in DOMAIN frame.rows |->
                 [idx |-> frame.rows[n].idx, cells |-> frame.rows[n].cells]]]

\* What a run reports and renders: every entry of the results dict but the
\* Compare object, the column statistics and the mismatch records
ReportWith(res, stats, records) ==
    [fields |-> [k \in ReportKeys \ {"comparison_obj", "column_diffs"} |-> res[k]],
     column_diffs |-> [c \in DOMAIN res.column_diffs |-> ViewFrame(res.column_diffs[c])],
     column_stats |-> stats,
     mismatch_rows |-> records]

ReportOfMismatches(res, all_mismatches_df) ==
    ReportWith(res, ColumnStats(res.comparison_obj, all_mismatches_df),
               MismatchRows(all_mismatches_df))

\* create_comparison_section(results) renders comparison_obj.all_mismatch()
ReportOfResults(res) == ReportOfMismatches(res, AllMismatch(res.comparison_obj))

\* The report of a run on the given data sets
ReportOfRun(base, compare, join_columns, compare_columns) ==
    ReportOfResults(RunComparisonResults(base, compare, join_columns, compare_columns))

\* The orders of n rows that exchange two neighbours; every order of the rows
\* is reached by such exchanges, and every data set is an initial one.
Exchanges(n) ==
    {[i \in 1..n |-> IF i = k THEN k + 1 ELSE IF i = k + 1 THEN k ELSE i] : k \in 1..(n - 1)}

\* The report of the finished Dash comparison
ReportShown == ReportWith(results, column_stats, mismatch_rows)

\* The frame with its rows in the order perm
Permuted(df, perm) ==
    [columns |-> df.columns, rows |-> [i \in DOMAIN df.rows |-> df.rows[perm[i]]]]

\* Exchanging two neighbouring rows of the base (compare) data set gives the
\* report shown
BaseOrderIrrelevant(shown) ==
    \A perm \in Exchanges(Len(base_df.rows)) :
        ReportOfRun(Permuted(base_df, perm), compare_df,
                    results.join_columns, results.compare_columns) = shown

CompareOrderIrrelevant(shown) ==
    \A perm \in Exchanges(Len(compare_df.rows)) :
        ReportOfRun(base_df, Permuted(compare_df, perm),
                    results.join_columns, results.compare_columns) = shown

MismatchesOf(cmp, c) ==
    Cardinality({n \in DOMAIN cmp.intersect_rows : ~cmp.intersect_rows[n].match[c]})

\* No compared column has more mismatches in `wider` than in `cmp`
NoMoreMismatches(cmp, wider) ==
    \A c \in Range(MatchColumns(cmp.df1, cmp.df2, cmp.join_columns)) :
        MismatchesOf(wider, c) <= MismatchesOf(cmp, c)

\* C18: on the data sets and join columns of a finished comparison, a larger
\* absolute tolerance or a larger relative tolerance never gives a column more
\* mismatches.  (The tool itself runs with relative tolerance 0.)
C18_ToleranceMonotone ==
    pc = "tk_done" =>
        \A abs_tol \in Tolerances, rel_tol \in {0, 1} :
            abs_tol >= compare_result.abs_tol =>
                NoMoreMismatches(compare_result,
                    Compare(compare_result.df1, compare_result.df2,
                            compare_result.join_columns, abs_tol, rel_tol, FALSE))

C18_Witness ==
    /\ pc = "tk_done"
    /\ compare_result.abs_tol = 1
    /\ MismatchesOf(compare_result, "val") = 1
    /\ MismatchesOf(Compare(compare_result.df1, compare_result.df2,
                            compare_result.join_columns, 2, 0, FALSE), "val") = 0

\* With the first two rows of df1 under one key that a single row of df2 has,
\* the first is matched with that row and the second is left in df1 only.
FirstPairedSecondLeft(cmp) ==
    \A j \in DOMAIN cmp.df2.rows :
        (/\ Len(cmp.df1.rows) >= 2
         /\ GroupOf(cmp.df1, cmp.join_columns, KeyOf(cmp.df1.rows[1], cmp.join_columns))
               = {1, 2}
         /\ GroupOf(cmp.df2, cmp.join_columns, KeyOf(cmp.df1.rows[1], cmp.join_columns))
               = {j}) =>
            /\ {p \in MatchedPairs(cmp) : p[1] \in {1, 2} \/ p[2] = j} = {<<1, j>>}
            /\ OnlyInA(cmp) \cap {1, 2} = {2}
            /\ j \notin OnlyInB(cmp)

----------------------------------------------------------------------------
(* Properties: degenerate inputs *)

\* One of the two data sets has no rows
OneEmpty == base_df.rows = <<>> \/ compare_df.rows = <<>>

\* No selected column is a common column
NoneSelectedCommon ==
    /\ results.compare_columns # <<>>
    /\ Range(results.compare_columns) \cap Range(results.columns_compared) = {}

\* The join columns are all the common columns: no column is left to compare
NothingToCompare == Range(results.columns_compared) \subseteq Range(results.join_columns)

\* C20 (as the code has it): a run on degenerate inputs ends with a complete
\* report, not an error.  With one data set empty no row is matched, the match
\* rate is 0, there is no mismatch record and no column difference, and every
\* row of the other data set is counted on its side only.  With no selected
\* column among the common ones there is no column difference; with no column
\* left to compare there is no mismatch record either; counts and match rate
\* are then those of the row join.
C20_DegenerateInputs ==
    /\ pc = "dash_error" => alert.text \in JoinColumnAlerts
    /\ pc = "dash_done" =>
          /\ ReportKeys \subseteq DOMAIN results
          /\ OneEmpty =>
                /\ results.intersect_rows = 0
                /\ results.match_rate = Ratio(0, 1)
                /\ mismatch_rows = <<>>
                /\ DOMAIN results.column_diffs = {}
                /\ results.base_only_rows = Len(base_df.rows)
                /\ results.compare_only_rows = Len(compare_df.rows)
          /\ NoneSelectedCommon => DOMAIN results.column_diffs = {}
          /\ NothingToCompare =>
                /\ mismatch_rows = <<>>
                /\ DOMAIN results.column_diffs = {}
                /\ results.intersect_rows = Cardinality(MatchedPairs(Comparison))
                /\ results.match_rate = CalculateMatchRate(Comparison)

C20_Witness ==
    /\ pc = "dash_done"
    /\ base_df.rows = <<>>
    /\ Len(compare_df.rows) = 2
    /\ results.compare_only_rows = 2
    /\ results.compare_columns = <<"x">>
    /\ NoneSelectedCommon

\* C20 as claimed: with one data set empty, or no column to compare, the
\* report has zero counts, empty collections and match rate 0.
C20_ZeroedReport ==
    (pc = "dash_done" /\ (OneEmpty \/ NoneSelectedCommon \/ NothingToCompare)) =>
        /\ results.intersect_rows = 0
        /\ results.base_only_rows = 0
        /\ results.compare_only_rows = 0
        /\ results.match_rate = Ratio(0, 1)
        /\ mismatch_rows = <<>>
        /\ DOMAIN results.column_diffs = {}

----------------------------------------------------------------------------
(* Properties: loading before comparing *)

\* A load of data set i of the PyQt window is in progress: its thread runs
LoadRunning(i) == loader[i].state = "running"

\* C21 (as the spec states it): no comparison runs while a data set is
\* unloaded or while a load of a data set is in progress; here for the PyQt
\* window, whose worker thread is the running comparison.
C21_ComparisonAfterLoading ==
    worker.state = "running" =>
        /\ window.df1 # NoResults
        /\ window.df2 # NoResults
        /\ \A i \in {1, 2} : ~LoadRunning(i)

----------------------------------------------------------------------------
(* Properties: the result cache *)

\* C22 (as the spec states it): the summary retrieved after
\* store_comparison_results(report) has the id that the store returned, and
\* the row counts and the match rate of the report.
C22_StoreThenRetrieve ==
    pc = "dash_done" =>
        /\ GetComparisonResults(session_store) # NoResults
        /\ GetComparisonResults(session_store).id = results.comparison_id
        /\ GetComparisonResults(session_store).base_rows = results.total_rows_base
        /\ GetComparisonResults(session_store).compare_rows = results.total_rows_compare
        /\ GetComparisonResults(session_store).common_rows = results.intersect_rows
        /\ GetComparisonResults(session_store).match_rate = results.match_rate

----------------------------------------------------------------------------
(* Properties: the buttons of the Dash dialogs *)

BothStored == browser.base_data_store # NoResults /\ browser.compare_data_store # NoResults

\* C23 (as the spec states it): the proceed-to-columns button is enabled only
\* if both data sets are loaded, and once the base upload and the compare
\* upload have both succeeded and are answered, in whatever order and
\* overlap, the button is enabled.
C23_ProceedEnabledWhenBothUploaded ==
    /\ ~browser.proceed_disabled => BothStored
    /\ (/\ pending = {}
        /\ browser.base_upload_status = "success"
        /\ browser.compare_upload_status = "success") => ~browser.proceed_disabled

\* No callback that writes the dropdown or the run button is unanswered
DialogSettled ==
    \A r \in pending : r.callback \notin {"populate_join_columns", "update_run_button_status"}

\* DataHandler.run_comparison was called only with a join column
NeverCalledWithoutJoin ==
    /\ \A k \in DOMAIN browser.called_with : browser.called_with[k] # <<>>
    /\ pc \in {"dash_done", "dash_error"} => browser.called_with # <<>>
    /\ pc = "dash_done" =>
          results.join_columns = browser.called_with[Len(browser.called_with)]

\* C24 (as the code has it): once the callbacks of the dialog are answered the
\* run button is disabled exactly when no join column is selected; the
\* selected join columns are always among the options of the dropdown; and
\* run_comparison_from_modal never calls the comparison without a join column.
C24_RunButtonFollowsSelection ==
    /\ DialogSettled => (browser.run_disabled <=> browser.join_value = <<>>)
    /\ Range(browser.join_value) \subseteq Range(browser.join_options)
    /\ NeverCalledWithoutJoin

\* A comparison on the preselected join column is shown; the dialog is
\* closed and reset.
C24_Witness ==
    /\ pc = "dash_done"
    /\ browser.called_with = <<(<<"id">>)>>
    /\ DialogSettled
    /\ browser.run_disabled
    /\ ~browser.column_selection_modal

\* C24 (as the spec states it): in every state the run button is disabled
\* exactly when no join column is selected, the selected join columns are
\* among the columns common to the two stored data sets, and the comparison
\* is never called without a join column.
C24_RunButtonExact ==
    /\ browser.run_disabled <=> browser.join_value = <<>>
    /\ Range(browser.join_value) \subseteq
          Range(CommonCols(browser.base_data_store, browser.compare_data_store))
    /\ NeverCalledWithoutJoin

----------------------------------------------------------------------------
(* Properties: the Compare button of the PyQt window *)

\* A load of data set i is in progress: from load_data until the slot of the
\* thread's finished or error signal has run
LoadInProgress(i) == loader[i].state # "idle"

\* A comparison is in progress: from compare_datasets until the slot of the
\* worker's finished or error signal has run
ComparisonInProgress == worker.state # "idle"

BothLoaded == window.df1 # NoResults /\ window.df2 # NoResults

\* C25 (as the spec states it): the Compare button of the PyQt window is
\* enabled if and only if both data sets are loaded and neither a load nor a
\* comparison is in progress.
C25_CompareEnabledIffReady ==
    ~window.aborted =>
        (window.compare_btn <=>
            /\ BothLoaded
            /\ \A i \in {1, 2} : ~LoadInProgress(i)
            /\ ~ComparisonInProgress)

----------------------------------------------------------------------------
(* Properties: the signals of the PyQt threads *)

\* The positions of the finished and error signals in what a run emitted
TerminalSignals(sigs) == {k \in DOMAIN sigs : sigs[k].signal \in Terminal}

\* The values passed to progress.emit never go down
ProgressNonDecreasing(sigs) ==
    \A j, k \in DOMAIN sigs :
        (j < k /\ sigs[j].signal = "progress" /\ sigs[k].signal = "progress")
            => sigs[j].arg <= sigs[k].arg

\* A finished signal comes after progress 100
HundredBeforeFinished(sigs) ==
    \A k \in DOMAIN sigs :
        sigs[k].signal = "finished"
            => \E j \in 1..(k - 1) : sigs[j].signal = "progress" /\ sigs[j].arg = 100

\* What one run of a thread emitted: one terminal signal, the last one
OneRun(sigs) ==
    /\ Cardinality(TerminalSignals(sigs)) = 1
    /\ TerminalSignals(sigs) = {Len(sigs)}
    /\ ProgressNonDecreasing(sigs)
    /\ HundredBeforeFinished(sigs)

\* The results a ComparisonWorker passes to finished have one entry per
\* selected method
OneEntryPerMethod ==
    \A k \in DOMAIN worker.emitted :
        worker.emitted[k].signal = "finished" =>
            DOMAIN worker.emitted[k].arg.results = Range(worker.comparison_methods)

\* C26: a DataLoaderThread or ComparisonWorker that has run emitted exactly
\* one of finished and error, as its last signal; its progress values never
\* go down; progress 100 precedes finished; and the results of a
\* ComparisonWorker have exactly one entry per selected comparison method.
C26_OneTerminalSignal ==
    /\ \A i \in {1, 2} : loader[i].state = "returned" => OneRun(loader[i].emitted)
    /\ worker.state = "returned" => OneRun(worker.emitted) /\ OneEntryPerMethod

\* A comparison with two methods has finished while a load that raised after
\* its first progress value has ended in error.
C26_Witness ==
    /\ worker.state = "returned"
    /\ Len(worker.comparison_methods) = 2
    /\ worker.emitted[Len(worker.emitted)].signal = "finished"
    /\ \E i \in {1, 2} :
          /\ loader[i].state = "returned"
          /\ Len(loader[i].emitted) = 2
          /\ loader[i].emitted[2].signal = "error"

----------------------------------------------------------------------------
(* Properties: the progress window of the Tkinter tool *)

\* hide_progress is the last callback a returned thread scheduled, and it
\* scheduled it once
HideScheduledLast(op) ==
    /\ op.state = "returned" =>
          /\ op.scheduled # <<>>
          /\ op.scheduled[Len(op.scheduled)] = "hide_progress"
    /\ \A j \in DOMAIN op.scheduled :
          op.scheduled[j] = "hide_progress" => j = Len(op.scheduled) /\ op.todo = <<>>

\* The callbacks of an operation run in the order it scheduled them
RanInOrder(op) ==
    /\ Len(op.ran) <= Len(op.scheduled)
    /\ op.ran = SubSeq(op.scheduled, 1, Len(op.ran))

AtMostOneProgressWindow == Cardinality(input_window.toplevels) <= 1

HideAfterNotification == \A k \in DOMAIN ops : HideScheduledLast(ops[k]) /\ RanInOrder(ops[k])

\* Operation k has shown the progress window
Shown(k) == k \in DOMAIN ops

\* The hide_progress of operation k has run, after the operation's other
\* callbacks, and the window the operation created is gone
Hidden(k) ==
    /\ k \in DOMAIN ops
    /\ ops[k].state = "returned"
    /\ ops[k].ran = ops[k].scheduled
    /\ ops[k].window \notin input_window.toplevels

\* C27: at most one progress window exists at any time; every thread
\* schedules hide_progress once, after its result or error callbacks, and the
\* main loop runs them in that order; and every operation that has shown the
\* progress window leads to a state where its hide_progress has run and its
\* window is gone, however the operation ended.
C27_ProgressEventuallyHidden ==
    /\ [](AtMostOneProgressWindow /\ HideAfterNotification)
    /\ \A k \in 1..MaxOps : Shown(k) ~> Hidden(k)

\* A failed SQL operation, a load and a comparison have all been hidden; the
\* comparison was started from the configuration window.
C27_Witness ==
    /\ Len(ops) = 3
    /\ \A k \in DOMAIN ops : Hidden(k)
    /\ \E k \in DOMAIN ops : ops[k].kind = "compare_sql" /\ ops[k].scheduled[1] = "showerror"
    /\ \E k \in DOMAIN ops : ops[k].kind = "run_csv_comparison"
    /\ input_window.toplevels = {}
    /\ after_queue = <<>>

----------------------------------------------------------------------------
(* Properties: the session store *)

\* Each dataset table holds at most one row
AtMostOneRow == Len(handler.base_dataset) <= 1 /\ Len(handler.compare_dataset) <= 1

\* C28 (as the spec states it): each table keeps at most one dataset, and
\* what get_base_dataset / get_compare_dataset returns is the dataset most
\* recently stored there, None if none was stored.
C28_GetReturnsLastStored ==
    /\ AtMostOneRow
    /\ handler.last.op = "get_base_dataset" => handler.last.df = handler.given.base_dataset
    /\ handler.last.op = "get_compare_dataset" => handler.last.df = handler.given.compare_dataset

----------------------------------------------------------------------------
(* Properties: the session files *)

\* C29 (as the spec states it): neither the force cleanup nor the age-based
\* cleanup removes the database file of the current session, whose
\* connection is open.
C29_CurrentSessionFileKept == CurrentFile \in DOMAIN session_dir

----------------------------------------------------------------------------
(* Properties: expanding a table of the rendered section *)

\* What DataHandler.run_comparison builds for the data sets and join columns
\* of a Compare object
RunOn(comparison) ==
    RunComparisonResults(comparison.df1, comparison.df2, comparison.join_columns, <<>>)

\* C30 (as the spec states it): the results handle_table_expansion renders
\* carry the match_rate, intersect_rows, base_only_rows and compare_only_rows
\* that DataHandler.run_comparison builds for the same data sets and join
\* columns.
C30_ExpansionSameSummary ==
    pc = "dash_expanded" =>
        /\ results.match_rate = RunOn(results.comparison_obj).match_rate
        /\ results.intersect_rows = RunOn(results.comparison_obj).intersect_rows
        /\ results.base_only_rows = RunOn(results.comparison_obj).base_only_rows
        /\ results.compare_only_rows = RunOn(results.comparison_obj).compare_only_rows

====
